---- MODULE Spec2Model ----
(***************************************************************************)
(* A model of releez's version core: compute_artifact_version              *)
(* (src/releez/artifact_version.py), its next-version resolver             *)
(* (src/releez/cliff.py, src/releez/process.py), compute_version_tags and  *)
(* select_tags (src/releez/version_tags.py); of the commands version       *)
(* artifact, release tag, release preview, release notes and release       *)
(* start (src/releez/cli.py) with the tag helpers of                       *)
(* src/releez/git_repo.py; of start_release (src/releez/release.py); and   *)
(* of _parse_github_full_name and create_pull_request                      *)
(* (src/releez/github.py).                                                 *)
(*                                                                         *)
(* Python strings are sequences of one-character strings, so that          *)
(* formatting, stripping and parsing are computed character by character.  *)
(* An optional value (T | None) is the empty tuple for None and the        *)
(* one-element tuple <<x>> for a present x.                                *)
(***************************************************************************)
EXTENDS Integers, Sequences, FiniteSets, TLC

VARIABLES
    artifact_input,   \* the ArtifactVersionInput passed to compute_artifact_version
    av_pc,            \* position inside compute_artifact_version
    next_version,     \* the local next_version (line 74), None until resolved
    av_result,        \* what compute_artifact_version returned or raised
    cliff_calls,      \* bump modes GitCliff.compute_next_version was called with
    cliff_env,        \* the environment the resolver ran in, None until it ran
    version,          \* the argument of compute_version_tags
    tags_pc,          \* position inside compute_version_tags
    tags_result,      \* what compute_version_tags returned or raised
    aliases,          \* the AliasTags argument of select_tags
    selected,         \* the list select_tags returned
    reparsed,         \* what compute_version_tags returned for 'v' + exact
    va_args,          \* the options the version artifact command was invoked with
    va_pc,            \* position inside version_artifact
    va_outcome,       \* how the command ended: exit code and exception
    va_stdout,        \* the lines the command echoed
    va_tags_calls,    \* the arguments compute_version_tags was called with
    rt_args,          \* the options the release tag command was invoked with
    rt_pc,            \* position inside release_tag
    rt_version,       \* the local version of release_tag, None until resolved
    rt_calls,         \* the calls made to the git and git-cliff helpers, in order
    rt_local_tags,    \* the tags of the local repository and what they point at
    rt_remote_tags,   \* the tags of the remote repository and what they point at
    rt_outcome,       \* how the command ended
    rt_stdout,        \* the lines the command echoed
    rt_file,          \* what the command wrote to the file of --output, if anything
    rel_kwargs,       \* the keyword arguments StartReleaseInput is constructed with
    rel_pc,           \* position inside start_release
    rel_repo,         \* the repository, its remote and the pull requests
    rel_ops,          \* the repository and tool operations executed, in order
    rel_version,      \* the local version of start_release
    rel_result,       \* what start_release returned or raised
    rs_args,          \* the options and settings the release start command runs with
    rs_pc,            \* position inside release_start
    rs_outcome,       \* how the command ended
    rs_stderr,        \* the message the command wrote to standard error
    rs_calls,         \* the StartReleaseInput values start_release was called with
    th_call,          \* per thread: the core operation it calls and its arguments
    th_pc,            \* per thread: position inside its call
    th_next_version,  \* per thread: the local next_version of compute_artifact_version
    th_result,        \* per thread: what its call returned or raised
    repository,       \* what the git repository makes git-cliff answer at present
    gh_call,          \* the function of github.py that is called
    gh_parts,         \* the pieces the remote URL was put together from
    gh_remote_url,    \* the remote URL passed in
    gh_env,           \* the GitHub variables of the process environment
    gh_pc,            \* position inside the call
    gh_full_name,     \* what _parse_github_full_name returned or raised
    gh_pull_request   \* what create_pull_request returned or raised

avVars == <<artifact_input, av_pc, next_version, av_result, cliff_calls, cliff_env>>
tagVars == <<version, tags_pc, tags_result>>
selVars == <<aliases, selected, reparsed>>
vaVars == <<va_args, va_pc, va_outcome, va_stdout, va_tags_calls>>
rtVars == <<rt_args, rt_pc, rt_version, rt_calls, rt_local_tags, rt_remote_tags,
           rt_outcome, rt_stdout, rt_file>>
relVars == <<rel_kwargs, rel_pc, rel_repo, rel_ops, rel_version, rel_result>>
\* the state of the commands of cli.py and of start_release
rsVars == <<rs_args, rs_pc, rs_outcome, rs_stderr, rs_calls>>
cmdVars == <<vaVars, rtVars, relVars, rsVars>>
\* concurrent callers of the core operations, and the repository they share
thVars == <<th_call, th_pc, th_next_version, th_result, repository>>
\* a call into github.py
ghVars == <<gh_call, gh_parts, gh_remote_url, gh_env, gh_pc, gh_full_name, gh_pull_request>>
\* the state around the single-caller core operations
outerVars == <<cmdVars, thVars, ghVars>>
\* everything compute_artifact_version leaves alone
notAvVars == <<tagVars, selVars, outerVars>>
\* everything compute_version_tags leaves alone
notTagVars == <<avVars, selVars, outerVars>>
vars == <<avVars, tagVars, selVars, outerVars>>

----------------------------------------------------------------------------
(* How a command ends *)

CmdRunning == [status |-> "running", exit_code |-> -1, error |-> ""]
\* the command function returned
CmdOk == [status |-> "returned", exit_code |-> 0, error |-> ""]
\* an except clause printed the error and raised typer.Exit(code=1)
CmdExit(e) == [status |-> "exit", exit_code |-> 1, error |-> e]
\* an exception no except clause names leaves the command function
CmdUncaught(e) == [status |-> "uncaught", exit_code |-> 1, error |-> e]

\* the version artifact command is not running
VersionArtifactIdle ==
    /\ va_args = <<>>
    /\ va_pc = "idle"
    /\ va_outcome = CmdRunning
    /\ va_stdout = <<>>
    /\ va_tags_calls = <<>>

\* the release tag command is not running
ReleaseTagIdle ==
    /\ rt_args = <<>>
    /\ rt_pc = "idle"
    /\ rt_version = <<>>
    /\ rt_calls = <<>>
    /\ rt_local_tags = {}
    /\ rt_remote_tags = {}
    /\ rt_outcome = CmdRunning
    /\ rt_stdout = <<>>
    /\ rt_file = <<>>

\* start_release is not running
StartReleaseIdle ==
    /\ rel_kwargs = <<>>
    /\ rel_pc = "idle"
    /\ rel_repo = <<>>
    /\ rel_ops = <<>>
    /\ rel_version = <<>>
    /\ rel_result = <<>>

\* the release start command is not running
ReleaseStartIdle ==
    /\ rs_args = <<>>
    /\ rs_pc = "idle"
    /\ rs_outcome = CmdRunning
    /\ rs_stderr = ""
    /\ rs_calls = <<>>

\* no concurrent callers
ThreadsIdle ==
    /\ th_call = <<>>
    /\ th_pc = <<>>
    /\ th_next_version = <<>>
    /\ th_result = <<>>
    /\ repository = <<>>

\* no call into github.py
GithubIdle ==
    /\ gh_call = ""
    /\ gh_parts = <<>>
    /\ gh_remote_url = <<>>
    /\ gh_env = <<>>
    /\ gh_pc = "idle"
    /\ gh_full_name = <<>>
    /\ gh_pull_request = <<>>

\* no command of cli.py is running, no concurrent callers, no call into github.py
CommandsIdle ==
    /\ VersionArtifactIdle /\ ReleaseTagIdle /\ StartReleaseIdle /\ ReleaseStartIdle
    /\ ThreadsIdle /\ GithubIdle

----------------------------------------------------------------------------
(* Bounds of the model *)

\* prerelease_number and build_number are drawn from -1..MaxNumber and {123, 456}
MaxNumber == 2
\* a version string given to compute_version_tags has 1..MaxComponents dot-separated components
MaxComponents == 4

----------------------------------------------------------------------------
(* Optional values and Python strings *)

None == <<>>
Some(x) == <<x>>

Digits == <<"0", "1", "2", "3", "4", "5", "6", "7", "8", "9">>
DigitSet == {Digits[i] : i \in 1..10}
Letters == {"a", "b", "c", "r", "v", "x", "N", "o", "n", "e"}
Whitespace == {" ", "\n"}

RECURSIVE NatStr(_)
\* str(n) for n >= 0
NatStr(n) == IF n < 10 THEN <<Digits[n + 1]>> ELSE NatStr(n \div 10) \o <<Digits[(n % 10) + 1]>>

\* str(n) of a Python int
IntStr(n) == IF n < 0 THEN <<"-">> \o NatStr(-n) ELSE NatStr(n)

\* what an f-string writes for a value of type int | None
FormatNumber(o) == IF o = None THEN <<"N", "o", "n", "e">> ELSE IntStr(o[1])

DigitVal(c) == CHOOSE d \in 0..9 : Digits[d + 1] = c

RECURSIVE StrToNat(_)
\* int(s) of a non-empty string of digits
StrToNat(s) ==
    IF Len(s) = 1 THEN DigitVal(s[1])
    ELSE 10 * StrToNat(SubSeq(s, 1, Len(s) - 1)) + DigitVal(s[Len(s)])

RECURSIVE LStrip(_)
LStrip(s) == IF s # <<>> /\ Head(s) \in Whitespace THEN LStrip(Tail(s)) ELSE s

RECURSIVE RStrip(_)
RStrip(s) ==
    IF s # <<>> /\ s[Len(s)] \in Whitespace THEN RStrip(SubSeq(s, 1, Len(s) - 1)) ELSE s

\* str.strip()
Strip(s) == RStrip(LStrip(s))

\* str.removeprefix('v'): at most one leading v is removed
RemovePrefixV(s) == IF s # <<>> /\ Head(s) = "v" THEN Tail(s) ELSE s

\* the least index of s holding a character of cs, Len(s) + 1 when there is none
FirstIndex(s, cs) ==
    IF \E i \in 1..Len(s) : s[i] \in cs
    THEN CHOOSE i \in 1..Len(s) : s[i] \in cs /\ \A j \in 1..(i - 1) : s[j] \notin cs
    ELSE Len(s) + 1

RECURSIVE Split(_, _)
\* s.split(sep) for a one-character separator
Split(s, sep) ==
    LET i == FirstIndex(s, {sep}) IN
    IF i > Len(s) THEN <<s>>
    ELSE <<SubSeq(s, 1, i - 1)>> \o Split(SubSeq(s, i + 1, Len(s)), sep)

RECURSIVE Join(_, _)
\* sep.join(parts)
Join(parts, sep) ==
    IF parts = <<>> THEN <<>>
    ELSE IF Len(parts) = 1 THEN parts[1]
    ELSE parts[1] \o sep \o Join(Tail(parts), sep)

\* whether string sub occurs in s
Contains(s, sub) ==
    \E i \in 1..(Len(s) - Len(sub) + 1) : SubSeq(s, i, i + Len(sub) - 1) = sub

----------------------------------------------------------------------------
(* Results *)

Pending == [status |-> "none", value |-> <<>>, error |-> ""]
Ok(v) == [status |-> "ok", value |-> v, error |-> ""]
Err(e) == [status |-> "error", value |-> <<>>, error |-> e]

----------------------------------------------------------------------------
(* artifact_version.py: enumerations *)

ArtifactVersionScheme == {"semver", "docker", "pep440"}
PrereleaseType == {"alpha", "beta", "rc"}

\* PrereleaseType.value as a string
PrereleaseTypeValue(t) ==
    CASE t = "alpha" -> <<"a", "l", "p", "h", "a">>
      [] t = "beta" -> <<"b", "e", "t", "a">>
      [] t = "rc" -> <<"r", "c">>

_PEP440_PRERELEASE_MARKERS ==
    [t \in PrereleaseType |->
        CASE t = "alpha" -> <<"a">>
          [] t = "beta" -> <<"b">>
          [] t = "rc" -> <<"r", "c">>]

\* str | None -> the values `x or y` takes x for: a present, non-empty string
OverrideIsTruthy(o) == o # None /\ o[1] # <<>>

\* a slip of line 75: the numbers are looked at before the full-release return
IsFullRelease_NumbersFirst(inp) == inp.is_full_release /\ inp.build_number # None

\* line 75: if artifact_input.is_full_release
IsFullRelease(inp) == inp.is_full_release

\* a slip of line 78: the prerelease-number check wins when both are absent
BuildNumberIsNone_AfterPrerelease(inp) ==
    inp.build_number = None /\ inp.prerelease_number # None

\* line 78: if artifact_input.build_number is None
BuildNumberIsNone(inp) == inp.build_number = None

\* a slip of line 83: the check is left out
PrereleaseNumberIsNone_Unchecked(inp) == FALSE

\* line 83: if prerelease_number is None
PrereleaseNumberIsNone(inp) == inp.prerelease_number = None

\* a slip of line 86: the build number is joined with "-"
SemverVersion_Dash(nv, t, pn, bn) ==
    nv \o <<"-">> \o PrereleaseTypeValue(t) \o FormatNumber(pn) \o <<"-">> \o FormatNumber(bn)

\* line 86: f'{next_version}-{prerelease_type}{prerelease_number}+{build_number}'
SemverVersion(nv, t, pn, bn) ==
    nv \o <<"-">> \o PrereleaseTypeValue(t) \o FormatNumber(pn) \o <<"+">> \o FormatNumber(bn)

\* a slip of line 88: the build number is joined with "+"
DockerVersion_Plus(nv, t, pn, bn) ==
    nv \o <<"-">> \o PrereleaseTypeValue(t) \o FormatNumber(pn) \o <<"+">> \o FormatNumber(bn)

\* line 88: f'{next_version}-{prerelease_type}{prerelease_number}-{build_number}'
DockerVersion(nv, t, pn, bn) ==
    nv \o <<"-">> \o PrereleaseTypeValue(t) \o FormatNumber(pn) \o <<"-">> \o FormatNumber(bn)

\* a slip of _pep440_version: the kind word is written instead of its marker
_pep440_version_KindWord(nv, t, pn, bn) ==
    nv \o PrereleaseTypeValue(t) \o FormatNumber(pn) \o <<".", "d", "e", "v">> \o FormatNumber(bn)

\* f'{next_version}{marker}{prerelease_number}.dev{build_number}'
_pep440_version(nv, t, pn, bn) ==
    LET marker == _PEP440_PRERELEASE_MARKERS[t] IN
    nv \o marker \o FormatNumber(pn) \o <<".", "d", "e", "v">> \o FormatNumber(bn)

----------------------------------------------------------------------------
(* The next-version resolver: _compute_next_version, GitCliff, run_checked *)

\* process.py run_checked: the subprocess outcome turned into stdout or an error
run_checked(env) ==
    CASE env.run = "FileNotFoundError" -> Err("MissingCliError")
      [] env.run = "CalledProcessError" -> Err("ExternalCommandError")
      [] OTHER -> Ok(Strip(env.stdout))

\* a slip of compute_next_version: the empty-output check is left out
compute_next_version_NoEmptyCheck(env) ==
    LET res == run_checked(env) IN
    IF res.status = "error" THEN res ELSE Ok(Strip(res.value))

\* cliff.py GitCliff.compute_next_version
compute_next_version(env) ==
    LET res == run_checked(env) IN
    IF res.status = "error" THEN res
    ELSE LET v == Strip(res.value) IN
         IF v = <<>> THEN Err("GitCliffVersionComputeError") ELSE Ok(v)

\* whether open_repo() and GitCliff(repo_root=...) both succeed, so that
\* cliff.compute_next_version is called
CliffIsCalled(env) == env.repo = "ok" /\ env.cliff_bin

\* artifact_version.py _compute_next_version
_compute_next_version(env) ==
    IF env.repo # "ok" THEN Err(env.repo)
    ELSE IF ~env.cliff_bin THEN Err("MissingCliError")
    ELSE compute_next_version(env)

----------------------------------------------------------------------------
(* Inputs of compute_artifact_version *)

V_0_1_0 == <<"0", ".", "1", ".", "0">>
V_1_2_3 == <<"1", ".", "2", ".", "3">>
V_2_0_0 == <<"2", ".", "0", ".", "0">>

\* int values of prerelease_number and build_number; the code accepts any int
Numbers == (-1..MaxNumber) \cup {123, 456}
OptionalNumbers == {None} \cup {Some(n) : n \in Numbers}

\* next_version_override: absent, the empty string, or a version string
Overrides == {None, Some(<<>>), Some(V_0_1_0), Some(V_1_2_3)}

ArtifactVersionInput ==
    [scheme : ArtifactVersionScheme,
     next_version_override : Overrides,
     is_full_release : BOOLEAN,
     prerelease_type : PrereleaseType,
     prerelease_number : OptionalNumbers,
     build_number : OptionalNumbers]

\* what git-cliff may write to stdout
CliffStdouts == {<<>>, <<"\n">>, V_0_1_0 \o <<"\n">>, V_2_0_0}

GoodEnv(out) == [repo |-> "ok", cliff_bin |-> TRUE, run |-> "ok", stdout |-> out]

\* the environments the resolver may meet: the repository cannot be opened, the
\* git-cliff executable is not found, the process cannot be started or exits
\* non-zero, or it exits zero with some output
CliffEnvs ==
    {[GoodEnv(<<>>) EXCEPT !.repo = r] :
        r \in {"InvalidGitRepositoryError", "MissingCliError", "GitRepoRootResolveError"}}
    \cup {[GoodEnv(<<>>) EXCEPT !.cliff_bin = FALSE]}
    \cup {[GoodEnv(<<>>) EXCEPT !.run = r] : r \in {"FileNotFoundError", "CalledProcessError"}}
    \cup {GoodEnv(out) : out \in CliffStdouts}

----------------------------------------------------------------------------
(* compute_artifact_version, step by step *)

\* line 74, left operand: next_version = artifact_input.next_version_override
compute_artifact_version_override ==
    /\ av_pc = "start"
    /\ OverrideIsTruthy(artifact_input.next_version_override)
    /\ next_version' = Some(artifact_input.next_version_override[1])
    /\ av_pc' = "resolved"
    /\ UNCHANGED <<artifact_input, av_result, cliff_calls, cliff_env>>
    /\ UNCHANGED notAvVars

\* line 74, right operand: next_version = _compute_next_version(), whose
\* exception leaves compute_artifact_version
compute_artifact_version_resolve ==
    /\ av_pc = "start"
    /\ ~OverrideIsTruthy(artifact_input.next_version_override)
    /\ \E env \in CliffEnvs :
        LET res == _compute_next_version(env) IN
        /\ cliff_env' = Some(env)
        /\ cliff_calls' = IF CliffIsCalled(env) THEN Append(cliff_calls, "auto") ELSE cliff_calls
        /\ IF res.status = "ok"
           THEN /\ next_version' = Some(res.value)
                /\ av_pc' = "resolved"
                /\ UNCHANGED av_result
           ELSE /\ av_result' = res
                /\ av_pc' = "done"
                /\ UNCHANGED next_version
    /\ UNCHANGED artifact_input
    /\ UNCHANGED notAvVars

\* lines 75-76: return next_version
compute_artifact_version_full_release ==
    /\ av_pc = "resolved"
    /\ IsFullRelease(artifact_input)
    /\ av_result' = Ok(next_version[1])
    /\ av_pc' = "done"
    /\ UNCHANGED <<artifact_input, next_version, cliff_calls, cliff_env>>
    /\ UNCHANGED notAvVars

\* lines 78-79: raise BuildNumberRequiredError
compute_artifact_version_build_number_required ==
    /\ av_pc = "resolved"
    /\ ~IsFullRelease(artifact_input)
    /\ BuildNumberIsNone(artifact_input)
    /\ av_result' = Err("BuildNumberRequiredError")
    /\ av_pc' = "done"
    /\ UNCHANGED <<artifact_input, next_version, cliff_calls, cliff_env>>
    /\ UNCHANGED notAvVars

\* lines 81-84: raise PrereleaseNumberRequiredError
compute_artifact_version_prerelease_number_required ==
    /\ av_pc = "resolved"
    /\ ~IsFullRelease(artifact_input)
    /\ ~BuildNumberIsNone(artifact_input)
    /\ PrereleaseNumberIsNone(artifact_input)
    /\ av_result' = Err("PrereleaseNumberRequiredError")
    /\ av_pc' = "done"
    /\ UNCHANGED <<artifact_input, next_version, cliff_calls, cliff_env>>
    /\ UNCHANGED notAvVars

\* lines 85-94: the scheme's format
FormatVersion(inp, nv) ==
    IF inp.scheme = "semver"
    THEN SemverVersion(nv, inp.prerelease_type, inp.prerelease_number, inp.build_number)
    ELSE IF inp.scheme = "docker"
    THEN DockerVersion(nv, inp.prerelease_type, inp.prerelease_number, inp.build_number)
    ELSE _pep440_version(nv, inp.prerelease_type, inp.prerelease_number, inp.build_number)

\* lines 85-94: return the formatted prerelease version
compute_artifact_version_format ==
    /\ av_pc = "resolved"
    /\ ~IsFullRelease(artifact_input)
    /\ ~BuildNumberIsNone(artifact_input)
    /\ ~PrereleaseNumberIsNone(artifact_input)
    /\ av_result' = Ok(FormatVersion(artifact_input, next_version[1]))
    /\ av_pc' = "done"
    /\ UNCHANGED <<artifact_input, next_version, cliff_calls, cliff_env>>
    /\ UNCHANGED notAvVars

\* compute_version_tags is not running in this specification
TagsIdle ==
    /\ version = <<>>
    /\ tags_pc = "idle"
    /\ tags_result = [status |-> "none", exact |-> <<>>, major |-> <<>>, minor |-> <<>>,
                      error |-> ""]
    /\ aliases = "none"
    /\ selected = <<>>
    /\ reparsed = [status |-> "none", exact |-> <<>>, major |-> <<>>, minor |-> <<>>,
                   error |-> ""]

Init ==
    /\ artifact_input \in ArtifactVersionInput
    /\ av_pc = "start"
    /\ next_version = None
    /\ av_result = Pending
    /\ cliff_calls = <<>>
    /\ cliff_env = None
    /\ TagsIdle
    /\ CommandsIdle

Next ==
    \/ compute_artifact_version_override
    \/ compute_artifact_version_resolve
    \/ compute_artifact_version_full_release
    \/ compute_artifact_version_build_number_required
    \/ compute_artifact_version_prerelease_number_required
    \/ compute_artifact_version_format

Spec == Init /\ [][Next]_vars

----------------------------------------------------------------------------
(* Claims about compute_artifact_version *)

AvDone == av_pc = "done"
Override == artifact_input.next_version_override

\* the resolver ran and could not produce a version: the repository could not be
\* opened, git-cliff was not found or failed, or its output was blank
ResolverFailed ==
    /\ cliff_env # None
    /\ \/ cliff_env[1].repo # "ok"
       \/ ~cliff_env[1].cliff_bin
       \/ cliff_env[1].run # "ok"
       \/ \A i \in 1..Len(cliff_env[1].stdout) : cliff_env[1].stdout[i] \in Whitespace

\* a base version is available: a non-empty override, or a resolver that ran and did not fail
BaseAvailable ==
    \/ (Override # None /\ Override[1] # <<>>)
    \/ (cliff_env # None /\ ~ResolverFailed)

NumberErrors == {"BuildNumberRequiredError", "PrereleaseNumberRequiredError"}

KindWord(t) ==
    CASE t = "alpha" -> <<"a", "l", "p", "h", "a">>
      [] t = "beta" -> <<"b", "e", "t", "a">>
      [] t = "rc" -> <<"r", "c">>

\* C1: a finished full-release call with a base version available has returned
\* exactly the base version (the non-empty override, else the version the
\* resolver gave), for every scheme, kind, prerelease_number and build_number,
\* and has raised neither BuildNumberRequired nor PrereleaseNumberRequired.
C1_FullReleaseReturnsBase ==
    (AvDone /\ artifact_input.is_full_release) =>
        /\ av_result.error \notin NumberErrors
        /\ BaseAvailable =>
            /\ av_result = Ok(next_version[1])
            /\ (Override # None /\ Override[1] # <<>>) => av_result.value = Override[1]
            /\ Override = None => av_result.value = Strip(cliff_env[1].stdout)

C1_Witness ==
    /\ AvDone
    /\ artifact_input.is_full_release
    /\ artifact_input.scheme = "docker"
    /\ artifact_input.prerelease_number = None
    /\ artifact_input.build_number = None
    /\ Override = Some(V_1_2_3)
    /\ av_result = Ok(V_1_2_3)

\* C2 as stated: every finished non-full-release call whose build_number is
\* absent has raised BuildNumberRequired, whatever the base-version source
\* (read here on the requests whose override is absent or names a version).
C2_Original ==
    (AvDone /\ ~artifact_input.is_full_release /\ artifact_input.build_number = None
        /\ Override # Some(<<>>)) =>
        av_result = Err("BuildNumberRequiredError")

\* C2 amended: every finished non-full-release call whose build_number is absent
\* and whose base version was resolved has raised BuildNumberRequired and
\* returned no version, also when prerelease_number is absent too.
C2_BuildNumberRequired ==
    (AvDone /\ ~artifact_input.is_full_release /\ artifact_input.build_number = None
        /\ BaseAvailable) =>
        av_result = Err("BuildNumberRequiredError")

C2_Witness ==
    /\ AvDone
    /\ ~artifact_input.is_full_release
    /\ artifact_input.build_number = None
    /\ artifact_input.prerelease_number = None
    /\ Override = None
    /\ BaseAvailable
    /\ av_result = Err("BuildNumberRequiredError")

\* C3 as stated: every finished non-full-release call with build_number present
\* and prerelease_number absent has raised PrereleaseNumberRequired
\* (read here on the requests whose override is absent or names a version).
C3_Original ==
    (AvDone /\ ~artifact_input.is_full_release /\ artifact_input.build_number # None
        /\ artifact_input.prerelease_number = None /\ Override # Some(<<>>)) =>
        av_result = Err("PrereleaseNumberRequiredError")

\* C3 amended: every finished non-full-release call with build_number present,
\* prerelease_number absent and the base version resolved has raised
\* PrereleaseNumberRequired; and a version returned by a non-full-release call
\* was formatted from two present numbers, never from an absent one.
C3_PrereleaseNumberRequired ==
    /\ (AvDone /\ ~artifact_input.is_full_release /\ artifact_input.build_number # None
            /\ artifact_input.prerelease_number = None /\ BaseAvailable) =>
            av_result = Err("PrereleaseNumberRequiredError")
    /\ (av_result.status = "ok" /\ ~artifact_input.is_full_release) =>
            /\ artifact_input.prerelease_number # None
            /\ artifact_input.build_number # None
            /\ ~Contains(av_result.value, <<"N", "o", "n", "e">>)

C3_Witness ==
    /\ AvDone
    /\ ~artifact_input.is_full_release
    /\ artifact_input.scheme = "docker"
    /\ artifact_input.prerelease_type = "rc"
    /\ artifact_input.build_number = Some(456)
    /\ artifact_input.prerelease_number = None
    /\ av_result = Err("PrereleaseNumberRequiredError")

\* both numbers present in a finished non-full-release call of the given scheme
FormattedCall(scheme) ==
    /\ AvDone
    /\ ~artifact_input.is_full_release
    /\ artifact_input.scheme = scheme
    /\ artifact_input.prerelease_number # None
    /\ artifact_input.build_number # None
    /\ BaseAvailable

\* the call of the spec's example: base 0.1.0, alpha, 123, 456
ExampleCall(scheme) ==
    /\ FormattedCall(scheme)
    /\ Override = Some(V_0_1_0)
    /\ artifact_input.prerelease_type = "alpha"
    /\ artifact_input.prerelease_number = Some(123)
    /\ artifact_input.build_number = Some(456)

\* C4: a finished semver non-full-release call with both numbers present has
\* returned base "-" kind-word prerelease_number "+" build_number, the numbers
\* in decimal; base 0.1.0, alpha, 123, 456 gives 0.1.0-alpha123+456.
C4_SemverFormat ==
    /\ FormattedCall("semver") =>
        av_result = Ok(next_version[1] \o <<"-">> \o KindWord(artifact_input.prerelease_type)
                        \o IntStr(artifact_input.prerelease_number[1]) \o <<"+">>
                        \o IntStr(artifact_input.build_number[1]))
    /\ ExampleCall("semver") =>
        av_result.value = <<"0", ".", "1", ".", "0", "-", "a", "l", "p", "h", "a",
                            "1", "2", "3", "+", "4", "5", "6">>

C4_Witness ==
    /\ ExampleCall("semver")
    /\ av_result.status = "ok"

\* C5: a finished docker non-full-release call with both numbers present has
\* returned base "-" kind-word prerelease_number "-" build_number, and what
\* follows the base holds no "+"; the example gives 0.1.0-alpha123-456.
C5_DockerFormat ==
    /\ FormattedCall("docker") =>
        /\ av_result = Ok(next_version[1] \o <<"-">> \o KindWord(artifact_input.prerelease_type)
                        \o IntStr(artifact_input.prerelease_number[1]) \o <<"-">>
                        \o IntStr(artifact_input.build_number[1]))
        /\ \A i \in (Len(next_version[1]) + 1)..Len(av_result.value) : av_result.value[i] # "+"
    /\ ExampleCall("docker") =>
        av_result.value = <<"0", ".", "1", ".", "0", "-", "a", "l", "p", "h", "a",
                            "1", "2", "3", "-", "4", "5", "6">>

C5_Witness ==
    /\ ExampleCall("docker")
    /\ av_result.status = "ok"

Pep440Marker(t) ==
    CASE t = "alpha" -> <<"a">>
      [] t = "beta" -> <<"b">>
      [] t = "rc" -> <<"r", "c">>

\* C6: a finished pep440 non-full-release call with both numbers present has
\* returned base marker prerelease_number ".dev" build_number, nothing between
\* base and marker, marker a for alpha, b for beta, rc for rc; the example gives
\* 0.1.0a123.dev456; the marker table has an entry for each of the three kinds.
C6_Pep440Format ==
    /\ FormattedCall("pep440") =>
        av_result = Ok(next_version[1] \o Pep440Marker(artifact_input.prerelease_type)
                        \o IntStr(artifact_input.prerelease_number[1]) \o <<".", "d", "e", "v">>
                        \o IntStr(artifact_input.build_number[1]))
    /\ ExampleCall("pep440") =>
        av_result.value = <<"0", ".", "1", ".", "0", "a", "1", "2", "3",
                            ".", "d", "e", "v", "4", "5", "6">>
    /\ DOMAIN _PEP440_PRERELEASE_MARKERS = {"alpha", "beta", "rc"}

C6_Witness ==
    /\ FormattedCall("pep440")
    /\ artifact_input.prerelease_type = "beta"
    /\ artifact_input.prerelease_number = Some(0)
    /\ artifact_input.build_number = Some(123)
    /\ av_result.status = "ok"

\* C7 as stated: whenever the override is present, whatever string it is, the
\* resolver is never entered and the base version is the override; the resolver
\* runs only when the override is absent, and git-cliff is asked with bump auto.
C7_OverrideNeverResolves ==
    /\ Override # None =>
        /\ cliff_env = None
        /\ cliff_calls = <<>>
        /\ next_version # None => next_version = Override
    /\ cliff_env # None => Override = None
    /\ \A i \in 1..Len(cliff_calls) : cliff_calls[i] = "auto"

\* C8: when the override is absent and the resolver failed, the finished call
\* has raised the resolver's own error: not BuildNumberRequired, not
\* PrereleaseNumberRequired, and no version was returned.
C8_ResolverErrorPropagates ==
    (Override = None /\ ResolverFailed) =>
        /\ AvDone
        /\ av_result.status = "error"
        /\ av_result.error \notin NumberErrors
        /\ av_result = _compute_next_version(cliff_env[1])
        /\ next_version = None

C8_Witness ==
    /\ AvDone
    /\ Override = None
    /\ ~artifact_input.is_full_release
    /\ artifact_input.build_number = None
    /\ cliff_env # None
    /\ cliff_env[1].stdout = <<"\n">>
    /\ cliff_env[1].run = "ok"
    /\ av_result = Err("GitCliffVersionComputeError")

----------------------------------------------------------------------------
(* version_tags.py: compute_version_tags *)

IdentChars == DigitSet \cup Letters \cup {"-"}

AllIn(s, cs) == \A i \in 1..Len(s) : s[i] \in cs

\* 0|[1-9]\d*
IsNumericId(s) == s # <<>> /\ AllIn(s, DigitSet) /\ (Len(s) = 1 \/ s[1] # "0")

\* 0|[1-9]\d*|\d*[a-zA-Z-][0-9a-zA-Z-]*
IsPrereleaseId(s) ==
    \/ IsNumericId(s)
    \/ (s # <<>> /\ AllIn(s, IdentChars) /\ ~AllIn(s, DigitSet))

\* [0-9a-zA-Z-]+
IsBuildId(s) == s # <<>> /\ AllIn(s, IdentChars)

NoVersionInfo ==
    [ok |-> FALSE, major |-> 0, minor |-> 0, patch |-> 0, prerelease |-> None, build |-> None]

\* semver's VersionInfo.parse: the match of
\*   ^ core(.core){2} (-prerelease(.prerelease)*)? (+build(.build)*)? $
\* where $ also matches before one final newline; ok is FALSE for ValueError
VersionInfoParse(str) ==
    LET s == IF str # <<>> /\ str[Len(str)] = "\n" THEN SubSeq(str, 1, Len(str) - 1) ELSE str
        i == FirstIndex(s, {"-", "+"})
        core == Split(SubSeq(s, 1, i - 1), ".")
        rest == SubSeq(s, i, Len(s))
        hasPre == rest # <<>> /\ rest[1] = "-"
        j == FirstIndex(rest, {"+"})
        hasBuild == j <= Len(rest)
        pre == IF hasPre THEN SubSeq(rest, 2, j - 1) ELSE <<>>
        build == IF hasBuild THEN SubSeq(rest, j + 1, Len(rest)) ELSE <<>>
        coreOk == Len(core) = 3 /\ \A k \in 1..3 : IsNumericId(core[k])
        preOk == hasPre => \A k \in DOMAIN Split(pre, ".") : IsPrereleaseId(Split(pre, ".")[k])
        buildOk == hasBuild => \A k \in DOMAIN Split(build, ".") : IsBuildId(Split(build, ".")[k])
    IN  IF coreOk /\ preOk /\ buildOk
        THEN [ok |-> TRUE,
              major |-> StrToNat(core[1]),
              minor |-> StrToNat(core[2]),
              patch |-> StrToNat(core[3]),
              prerelease |-> IF hasPre THEN Some(pre) ELSE None,
              build |-> IF hasBuild THEN Some(build) ELSE None]
        ELSE NoVersionInfo

\* a slip of line 46: the leading v is not removed
Normalized_KeepsV(v) == Strip(v)

\* line 46: normalized = version.strip().removeprefix('v')
Normalized(v) == RemovePrefixV(Strip(v))

\* a slip of line 53: the check is left out
HasPrereleaseOrBuild_Never(parsed) == FALSE

\* a slip of line 53: only the prerelease is looked at
HasPrereleaseOrBuild_PrereleaseOnly(parsed) == parsed.prerelease # None

\* line 53: parsed.prerelease is not None or parsed.build is not None
HasPrereleaseOrBuild(parsed) == parsed.prerelease # None \/ parsed.build # None

\* a slip of line 57: exact is the stripped input, its v kept
ExactTag_KeepsV(v) == Strip(v)

\* line 57: exact=normalized
ExactTag(v) == Normalized(v)

\* line 58: major=f'v{parsed.major}'
MajorTag(parsed) == <<"v">> \o IntStr(parsed.major)

\* line 59: minor=f'v{parsed.major}.{parsed.minor}'
MinorTag(parsed) == <<"v">> \o IntStr(parsed.major) \o <<".">> \o IntStr(parsed.minor)

NoTags == [status |-> "none", exact |-> <<>>, major |-> <<>>, minor |-> <<>>, error |-> ""]
TagsError(e) == [NoTags EXCEPT !.status = "error", !.error = e]
VersionTags(e, ma, mi) == [status |-> "ok", exact |-> e, major |-> ma, minor |-> mi, error |-> ""]

\* lines 48-51: VersionInfo.parse raises ValueError
compute_version_tags_parse_error ==
    /\ tags_pc = "call"
    /\ ~VersionInfoParse(Normalized(version)).ok
    /\ tags_result' = TagsError("InvalidReleaseVersionError")
    /\ tags_pc' = "done"
    /\ UNCHANGED version
    /\ UNCHANGED notTagVars

\* lines 53-54: a prerelease or build part was parsed
compute_version_tags_not_full_release ==
    /\ tags_pc = "call"
    /\ VersionInfoParse(Normalized(version)).ok
    /\ HasPrereleaseOrBuild(VersionInfoParse(Normalized(version)))
    /\ tags_result' = TagsError("InvalidReleaseVersionError")
    /\ tags_pc' = "done"
    /\ UNCHANGED version
    /\ UNCHANGED notTagVars

\* lines 56-60: return VersionTags(...)
compute_version_tags_return ==
    /\ tags_pc = "call"
    /\ VersionInfoParse(Normalized(version)).ok
    /\ ~HasPrereleaseOrBuild(VersionInfoParse(Normalized(version)))
    /\ tags_result' = VersionTags(ExactTag(version),
                                  MajorTag(VersionInfoParse(Normalized(version))),
                                  MinorTag(VersionInfoParse(Normalized(version))))
    /\ tags_pc' = "done"
    /\ UNCHANGED version
    /\ UNCHANGED notTagVars

\* compute_version_tags as a function of its argument (lines 46-60)
compute_version_tags(v) ==
    LET parsed == VersionInfoParse(Normalized(v)) IN
    IF ~parsed.ok THEN TagsError("InvalidReleaseVersionError")
    ELSE IF HasPrereleaseOrBuild(parsed) THEN TagsError("InvalidReleaseVersionError")
    ELSE VersionTags(ExactTag(v), MajorTag(parsed), MinorTag(parsed))

\* the caller parses its own exact tag again, prefixed with v
compute_version_tags_again ==
    /\ tags_pc = "done"
    /\ tags_result.status = "ok"
    /\ reparsed' = compute_version_tags(<<"v">> \o tags_result.exact)
    /\ tags_pc' = "reparsed"
    /\ UNCHANGED <<version, tags_result, aliases, selected>>
    /\ UNCHANGED <<avVars, outerVars>>

----------------------------------------------------------------------------
(* version_tags.py: select_tags *)

AliasTags == {"none", "major", "minor"}

\* a slip of select_tags: the minor alias replaces the major one
select_tags_MinorOnly(tags, a) ==
    IF a = "none" THEN <<tags.exact>>
    ELSE IF a = "major" THEN <<tags.exact, tags.major>>
    ELSE <<tags.exact, tags.minor>>

\* lines 63-69
select_tags(tags, a) ==
    IF a = "none" THEN <<tags.exact>>
    ELSE IF a = "major" THEN <<tags.exact, tags.major>>
    ELSE <<tags.exact, tags.major, tags.minor>>

\* select_tags called on a returned VersionTags with some alias level
select_tags_call ==
    /\ tags_pc = "done"
    /\ tags_result.status = "ok"
    /\ \E a \in AliasTags :
        /\ aliases' = a
        /\ selected' = select_tags(tags_result, a)
    /\ tags_pc' = "selected"
    /\ UNCHANGED <<version, tags_result, reparsed>>
    /\ UNCHANGED <<avVars, outerVars>>

----------------------------------------------------------------------------
(* Inputs of compute_version_tags *)

\* the text of one dot-separated component
ComponentTokens == {<<"0">>, <<"2">>, <<"1", "3">>, <<"0", "1">>}

\* 1..MaxComponents components joined by dots
VersionBodies ==
    UNION {{Join(cs, <<".">>) : cs \in [1..k -> ComponentTokens]} : k \in 1..MaxComponents}

\* what precedes the components: nothing, whitespace, one or two v, a v and a blank
VersionPrefixes ==
    {<<>>, <<" ">>, <<"v">>, <<" ", "v">>, <<"v", "v">>, <<"v", " ">>, <<"x">>}

\* what follows them: nothing, whitespace, a prerelease, build metadata, other text
VersionSuffixes ==
    {<<>>, <<" ">>, <<"\n">>,
     <<"-", "r", "c", ".", "1">>, <<"+", "9", "9">>, <<"-", "r", "c", "+", "9">>,
     <<"-">>, <<"+">>, <<"-", "0", "1">>, <<"x">>}

VersionInputs ==
    {p \o b \o x : p \in VersionPrefixes, b \in VersionBodies, x \in VersionSuffixes}
    \cup {<<>>, <<"v">>, <<"n", "o", "-", "v">>}

\* compute_artifact_version is not running in this specification
ArtifactIdle ==
    /\ artifact_input = [scheme |-> "semver", next_version_override |-> None,
                         is_full_release |-> FALSE, prerelease_type |-> "alpha",
                         prerelease_number |-> None, build_number |-> None]
    /\ av_pc = "idle"
    /\ next_version = None
    /\ av_result = Pending
    /\ cliff_calls = <<>>
    /\ cliff_env = None

InitTags ==
    /\ version \in VersionInputs
    /\ tags_pc = "call"
    /\ tags_result = NoTags
    /\ aliases = "none"
    /\ selected = <<>>
    /\ reparsed = NoTags
    /\ ArtifactIdle
    /\ CommandsIdle

NextTags ==
    \/ compute_version_tags_parse_error
    \/ compute_version_tags_not_full_release
    \/ compute_version_tags_return
    \/ compute_version_tags_again
    \/ select_tags_call

SpecTags == InitTags /\ [][NextTags]_vars

----------------------------------------------------------------------------
(* Claims about compute_version_tags *)

TagsDone == tags_pc = "done"

IsPrefix(p, s) == Len(p) <= Len(s) /\ SubSeq(s, 1, Len(p)) = p

\* s is digits "." digits "." digits, each run of digits non-empty
IsThreeNumeric(s) ==
    /\ AllIn(s, DigitSet \cup {"."})
    /\ Len(Split(s, ".")) = 3
    /\ \A k \in 1..3 : Split(s, ".")[k] # <<>>

\* s with at most one leading v removed, and nothing else
WithoutOneV(s) == IF s # <<>> /\ s[1] = "v" THEN SubSeq(s, 2, Len(s)) ELSE s

\* s without the whitespace around it
Trimmed(s) ==
    IF AllIn(s, Whitespace) THEN <<>>
    ELSE LET a == CHOOSE i \in 1..Len(s) :
                    s[i] \notin Whitespace /\ \A j \in 1..(i - 1) : s[j] \in Whitespace
             b == CHOOSE i \in 1..Len(s) :
                    s[i] \notin Whitespace /\ \A j \in (i + 1)..Len(s) : s[j] \in Whitespace
         IN SubSeq(s, a, b)

\* C9: for every accepted input the tag set is exact = X.Y.Z without a leading
\* v, major = vX, minor = vX.Y, X, Y, Z being the three components written in
\* the input (X.Y.Z or vX.Y.Z, whitespace around it aside): the fields agree on
\* X and Y, and major is a prefix of minor.
C9_TagsConsistent ==
    (TagsDone /\ tags_result.status = "ok") =>
        LET body == WithoutOneV(Trimmed(version))
            xyz == Split(body, ".")
        IN  /\ IsThreeNumeric(body)
            /\ tags_result.exact = xyz[1] \o <<".">> \o xyz[2] \o <<".">> \o xyz[3]
            /\ tags_result.exact[1] # "v"
            /\ tags_result.major = <<"v">> \o xyz[1]
            /\ tags_result.minor = <<"v">> \o xyz[1] \o <<".">> \o xyz[2]
            /\ IsPrefix(tags_result.major, tags_result.minor)
            /\ IsPrefix(tags_result.minor \o <<".">>, <<"v">> \o tags_result.exact)

C9_Witness ==
    /\ TagsDone
    /\ version = <<"v", "2", ".", "1", "3", ".", "0">>
    /\ tags_result = VersionTags(<<"2", ".", "1", "3", ".", "0">>, <<"v", "2">>,
                                 <<"v", "2", ".", "1", "3">>)

\* C10 as stated: every input that, after removing at most one leading v and
\* nothing else, is not exactly three numeric components is rejected with
\* InvalidReleaseVersion.
C10_Original ==
    (TagsDone /\ ~IsThreeNumeric(WithoutOneV(version))) =>
        tags_result = TagsError("InvalidReleaseVersionError")

\* C10 amended: every input that, after removing the whitespace around it and
\* then at most one leading v, is not exactly three numeric components is
\* rejected with InvalidReleaseVersion and no tag set: too few or too many
\* components, a prerelease, build metadata, a doubled v, other text around or
\* inside it.
C10_RejectsNonReleases ==
    (TagsDone /\ ~IsThreeNumeric(WithoutOneV(Trimmed(version)))) =>
        tags_result = TagsError("InvalidReleaseVersionError")

C10_Witness ==
    /\ TagsDone
    /\ version = <<"2", ".", "1", "3", ".", "0", "+", "9", "9">>
    /\ tags_result = TagsError("InvalidReleaseVersionError")

----------------------------------------------------------------------------
(* Claims about select_tags and the round trip *)

\* C11: select_tags returns exactly [exact] for none, [exact, major] for major,
\* [exact, major, minor] for minor: exact is first, the result of a weaker
\* policy is a prefix of a stronger one's, and no other tag appears.
C11_SelectTagsOrder ==
    (tags_pc = "selected") =>
        LET none == <<tags_result.exact>>
            major == <<tags_result.exact, tags_result.major>>
            minor == <<tags_result.exact, tags_result.major, tags_result.minor>>
        IN  /\ aliases = "none" => selected = none
            /\ aliases = "major" => selected = major
            /\ aliases = "minor" => selected = minor
            /\ selected[1] = tags_result.exact
            /\ IsPrefix(none, selected)
            /\ aliases # "none" => IsPrefix(major, selected)
            /\ IsPrefix(selected, minor)

C11_Witness ==
    /\ tags_pc = "selected"
    /\ aliases = "minor"
    /\ selected = << <<"2", ".", "1", "3", ".", "0">>, <<"v", "2">>, <<"v", "2", ".", "1", "3">> >>

\* C12: for every accepted input, parsing "v" + exact succeeds and returns the
\* same exact, major and minor as the first parse.
C12_RoundTrip ==
    (tags_pc = "reparsed") =>
        /\ reparsed.status = "ok"
        /\ reparsed.exact = tags_result.exact
        /\ reparsed.major = tags_result.major
        /\ reparsed.minor = tags_result.minor

C12_Witness ==
    /\ tags_pc = "reparsed"
    /\ version = <<" ", "v", "1", "3", ".", "0", ".", "2", "\n">>
    /\ reparsed = VersionTags(<<"1", "3", ".", "0", ".", "2">>, <<"v", "1", "3">>,
                              <<"v", "1", "3", ".", "0">>)

----------------------------------------------------------------------------
(* cli.py: the version artifact command *)

\* the field names of the dataclass ArtifactVersionInput (artifact_version.py 46-51)
ArtifactVersionInputFields ==
    {"scheme", "next_version_override", "is_full_release", "prerelease_type",
     "prerelease_number", "build_number"}

\* the generated __init__ of a dataclass whose fields have no defaults: the
\* keyword arguments must be exactly the fields, or TypeError is raised
DataclassInit(fields, kwargs) ==
    IF DOMAIN kwargs = fields THEN Ok(kwargs) ELSE Err("TypeError")

\* cli.py 83-94: the keyword arguments are those written at lines 88-93
_build_artifact_version_input(args) ==
    DataclassInit(ArtifactVersionInputFields,
                  [scheme |-> args.scheme,
                   version_override |-> args.version_override,
                   is_full_release |-> args.is_full_release,
                   prerelease_type |-> args.prerelease_type,
                   prerelease_number |-> args.prerelease_number,
                   build_number |-> args.build_number])

\* the options of the command (cli.py 290-347)
VersionArtifactOptions ==
    [scheme : ArtifactVersionScheme,
     version_override : Overrides,
     is_full_release : BOOLEAN,
     prerelease_type : PrereleaseType,
     prerelease_number : OptionalNumbers,
     build_number : OptionalNumbers,
     alias_tags : AliasTags]

\* cli.py 349-358: _VersionArtifactArgs is built from the options, then
\* _build_artifact_version_input raises TypeError; the except clause at 366
\* names ReleezError only, so the exception leaves the command and lines
\* 359-365 (compute_artifact_version, _emit_artifact_version_output) never run
version_artifact_build_input ==
    /\ va_pc = "start"
    /\ _build_artifact_version_input(va_args).status = "error"
    /\ va_outcome' = CmdUncaught(_build_artifact_version_input(va_args).error)
    /\ va_pc' = "done"
    /\ UNCHANGED <<va_args, va_stdout, va_tags_calls>>
    /\ UNCHANGED <<avVars, tagVars, selVars, rtVars, relVars, rsVars, thVars, ghVars>>

InitVersionArtifact ==
    /\ va_args \in VersionArtifactOptions
    /\ va_pc = "start"
    /\ va_outcome = CmdRunning
    /\ va_stdout = <<>>
    /\ va_tags_calls = <<>>
    /\ ArtifactIdle
    /\ TagsIdle
    /\ ReleaseTagIdle
    /\ StartReleaseIdle
    /\ ReleaseStartIdle
    /\ ThreadsIdle
    /\ GithubIdle

NextVersionArtifact ==
    \/ version_artifact_build_input

SpecVersionArtifact == InitVersionArtifact /\ [][NextVersionArtifact]_vars

\* C13: every version artifact invocation that requests alias tags (major or
\* minor) with is_full_release false ends in AliasTagsRequireFullReleaseError
\* with nothing written to the output, whatever the scheme.
C13_AliasTagsRequireFullRelease ==
    (va_pc = "done" /\ va_args.alias_tags # "none" /\ ~va_args.is_full_release) =>
        /\ va_outcome.error = "AliasTagsRequireFullReleaseError"
        /\ va_stdout = <<>>

\* C16: a version artifact invocation for a full release with alias policy
\* major or minor and scheme semver or docker passes the computed version to
\* compute_version_tags exactly once and prints the exact tag without v, then
\* the v-prefixed aliases in select_tags order (1.2.3 then v1 for major).
C16_AliasOutput ==
    (/\ va_pc = "done"
     /\ va_args.is_full_release
     /\ va_args.alias_tags # "none"
     /\ va_args.scheme # "pep440"
     /\ va_args.version_override \in {Some(V_0_1_0), Some(V_1_2_3)}) =>
        LET computed == va_args.version_override[1] IN
        /\ va_outcome = CmdOk
        /\ va_tags_calls = <<computed>>
        /\ va_stdout = select_tags(compute_version_tags(computed), va_args.alias_tags)
        /\ va_stdout[1] = computed
        /\ \A i \in 2..Len(va_stdout) : va_stdout[i][1] = "v"

\* C30: a version artifact invocation with scheme pep440 for which a version
\* can be computed (an override is given, and the build is a full release or
\* has both numbers) returns having printed one line, the computed version,
\* whatever the alias policy; it never calls compute_version_tags and never
\* raises AliasTagsRequireFullReleaseError.
C30_Pep440Output ==
    (va_pc = "done" /\ va_args.scheme = "pep440") =>
        /\ va_tags_calls = <<>>
        /\ va_outcome.error # "AliasTagsRequireFullReleaseError"
        /\ (/\ va_args.version_override \in {Some(V_0_1_0), Some(V_1_2_3)}
            /\ \/ va_args.is_full_release
               \/ va_args.build_number # None /\ va_args.prerelease_number # None) =>
            /\ va_outcome = CmdOk
            /\ Len(va_stdout) = 1
            /\ IsPrefix(va_args.version_override[1], va_stdout[1])
            /\ va_args.is_full_release => va_stdout[1] = va_args.version_override[1]

----------------------------------------------------------------------------
(* Concurrent calls of the core operations *)

\* two callers, each making one call
Threads == {1, 2}

\* the calls a thread may make: compute_artifact_version with an override,
\* compute_version_tags, select_tags; the arguments an operation does not take
\* are left at a fixed value
ArtifactCalls ==
    {[op |-> "compute_artifact_version", artifact_input |-> inp, version |-> <<>>,
      tags |-> NoTags, aliases |-> "none"] :
        inp \in {i \in ArtifactVersionInput :
                    /\ i.next_version_override # None
                    /\ i.prerelease_type = "beta"
                    /\ i.prerelease_number \in {None, Some(1)}
                    /\ i.build_number \in {None, Some(2)}}}

NoArtifactInput ==
    [scheme |-> "semver", next_version_override |-> None, is_full_release |-> FALSE,
     prerelease_type |-> "alpha", prerelease_number |-> None, build_number |-> None]

TagsCalls ==
    {[op |-> "compute_version_tags", artifact_input |-> NoArtifactInput, version |-> v,
      tags |-> NoTags, aliases |-> "none"] :
        v \in {V_1_2_3, <<"v">> \o V_2_0_0 \o <<"\n">>, V_0_1_0 \o <<"-", "r", "c">>, <<>>}}

SelectCalls ==
    {[op |-> "select_tags", artifact_input |-> NoArtifactInput, version |-> <<>>,
      tags |-> compute_version_tags(v), aliases |-> a] :
        v \in {V_1_2_3, V_2_0_0}, a \in AliasTags}

CoreCalls == ArtifactCalls \cup TagsCalls \cup SelectCalls

\* the states of the repository: git-cliff computes 0.1.0, computes 2.0.0, or fails
Repositories ==
    {GoodEnv(V_0_1_0 \o <<"\n">>), GoodEnv(V_2_0_0),
     [GoodEnv(<<>>) EXCEPT !.run = "CalledProcessError"]}

\* line 74, left operand, in thread t
thread_override(t) ==
    /\ th_call[t].op = "compute_artifact_version"
    /\ th_pc[t] = "start"
    /\ OverrideIsTruthy(th_call[t].artifact_input.next_version_override)
    /\ th_next_version' =
           [th_next_version EXCEPT ![t] = Some(th_call[t].artifact_input.next_version_override[1])]
    /\ th_pc' = [th_pc EXCEPT ![t] = "resolved"]
    /\ UNCHANGED <<th_call, th_result, repository>>

\* line 74, right operand, in thread t: the resolver reads the repository
thread_resolve(t) ==
    /\ th_call[t].op = "compute_artifact_version"
    /\ th_pc[t] = "start"
    /\ ~OverrideIsTruthy(th_call[t].artifact_input.next_version_override)
    /\ LET res == _compute_next_version(repository) IN
       IF res.status = "ok"
       THEN /\ th_next_version' = [th_next_version EXCEPT ![t] = Some(res.value)]
            /\ th_pc' = [th_pc EXCEPT ![t] = "resolved"]
            /\ UNCHANGED th_result
       ELSE /\ th_result' = [th_result EXCEPT ![t] = res]
            /\ th_pc' = [th_pc EXCEPT ![t] = "done"]
            /\ UNCHANGED th_next_version
    /\ UNCHANGED <<th_call, repository>>

\* lines 75-94 in thread t
thread_finish(t) ==
    /\ th_call[t].op = "compute_artifact_version"
    /\ th_pc[t] = "resolved"
    /\ LET inp == th_call[t].artifact_input IN
       th_result' = [th_result EXCEPT ![t] =
           IF IsFullRelease(inp) THEN Ok(th_next_version[t][1])
           ELSE IF BuildNumberIsNone(inp) THEN Err("BuildNumberRequiredError")
           ELSE IF PrereleaseNumberIsNone(inp) THEN Err("PrereleaseNumberRequiredError")
           ELSE Ok(FormatVersion(inp, th_next_version[t][1]))]
    /\ th_pc' = [th_pc EXCEPT ![t] = "done"]
    /\ UNCHANGED <<th_call, th_next_version, repository>>

\* compute_version_tags in thread t
thread_compute_version_tags(t) ==
    /\ th_call[t].op = "compute_version_tags"
    /\ th_pc[t] = "start"
    /\ LET tags == compute_version_tags(th_call[t].version) IN
       th_result' = [th_result EXCEPT ![t] =
           IF tags.status = "ok" THEN Ok(<<tags.exact, tags.major, tags.minor>>)
           ELSE Err(tags.error)]
    /\ th_pc' = [th_pc EXCEPT ![t] = "done"]
    /\ UNCHANGED <<th_call, th_next_version, repository>>

\* select_tags in thread t
thread_select_tags(t) ==
    /\ th_call[t].op = "select_tags"
    /\ th_pc[t] = "start"
    /\ th_result' = [th_result EXCEPT ![t] = Ok(select_tags(th_call[t].tags, th_call[t].aliases))]
    /\ th_pc' = [th_pc EXCEPT ![t] = "done"]
    /\ UNCHANGED <<th_call, th_next_version, repository>>

\* a commit, tag or fetch by anyone changes what git-cliff will answer
repository_changes ==
    /\ \E t \in Threads : th_pc[t] # "done"
    /\ \E r \in Repositories \ {repository} : repository' = r
    /\ UNCHANGED <<th_call, th_pc, th_next_version, th_result>>

InitThreads ==
    /\ th_call \in [Threads -> CoreCalls]
    /\ th_pc = [t \in Threads |-> "start"]
    /\ th_next_version = [t \in Threads |-> None]
    /\ th_result = [t \in Threads |-> Pending]
    /\ repository \in Repositories
    /\ ArtifactIdle
    /\ TagsIdle
    /\ VersionArtifactIdle
    /\ ReleaseTagIdle
    /\ StartReleaseIdle
    /\ ReleaseStartIdle
    /\ GithubIdle

NextThreads ==
    \/ \E t \in Threads : thread_override(t) /\ UNCHANGED <<avVars, tagVars, selVars, cmdVars, ghVars>>
    \/ \E t \in Threads : thread_resolve(t) /\ UNCHANGED <<avVars, tagVars, selVars, cmdVars, ghVars>>
    \/ \E t \in Threads : thread_finish(t) /\ UNCHANGED <<avVars, tagVars, selVars, cmdVars, ghVars>>
    \/ \E t \in Threads : thread_compute_version_tags(t)
                            /\ UNCHANGED <<avVars, tagVars, selVars, cmdVars, ghVars>>
    \/ \E t \in Threads : thread_select_tags(t) /\ UNCHANGED <<avVars, tagVars, selVars, cmdVars, ghVars>>
    \/ repository_changes /\ UNCHANGED <<avVars, tagVars, selVars, cmdVars, ghVars>>

SpecThreads == InitThreads /\ [][NextThreads]_vars

\* the result of a call made alone, from its arguments only: the override is
\* the base version
ResultAlone(c) ==
    IF c.op = "compute_artifact_version"
    THEN LET inp == c.artifact_input IN
         IF inp.is_full_release THEN Ok(inp.next_version_override[1])
         ELSE IF inp.build_number = None THEN Err("BuildNumberRequiredError")
         ELSE IF inp.prerelease_number = None THEN Err("PrereleaseNumberRequiredError")
         ELSE Ok(FormatVersion(inp, inp.next_version_override[1]))
    ELSE IF c.op = "compute_version_tags"
    THEN LET tags == compute_version_tags(c.version) IN
         IF tags.status = "ok" THEN Ok(<<tags.exact, tags.major, tags.minor>>)
         ELSE Err(tags.error)
    ELSE Ok(select_tags(c.tags, c.aliases))

\* C14: the core operations (compute_artifact_version with an override,
\* compute_version_tags, select_tags) share no mutable state: in every
\* interleaving each finished call has the result it has when made alone, and
\* two finished calls with equal arguments have equal results.
C14_NoSharedState ==
    /\ \A t \in Threads : th_pc[t] = "done" => th_result[t] = ResultAlone(th_call[t])
    /\ \A t, u \in Threads :
        (th_pc[t] = "done" /\ th_pc[u] = "done" /\ th_call[t] = th_call[u]) =>
            th_result[t] = th_result[u]

\* the same, for the calls whose override is not the empty string
C14_NonEmptyOverride ==
    /\ \A t \in Threads :
        (th_pc[t] = "done" /\ th_call[t].artifact_input.next_version_override # Some(<<>>)) =>
            th_result[t] = ResultAlone(th_call[t])
    /\ \A t, u \in Threads :
        (/\ th_pc[t] = "done" /\ th_pc[u] = "done" /\ th_call[t] = th_call[u]
         /\ th_call[t].artifact_input.next_version_override # Some(<<>>)) =>
            th_result[t] = th_result[u]

\* two finished calls with equal arguments and different results
C14_Divergence ==
    \E t, u \in Threads :
        /\ th_pc[t] = "done" /\ th_pc[u] = "done"
        /\ th_call[t] = th_call[u]
        /\ th_result[t] # th_result[u]

----------------------------------------------------------------------------
(* git_repo.py: create_tags, push_tags *)

\* a tag of a repository: its name and the commit it points at
Tag(n, c) == [name |-> n, at |-> c]
TagNamesOf(repo_tags) == {t.name : t \in repo_tags}

\* lines 205-209, one tag: git tag -f re-points, create_tag adds
WithTag(repo_tags, n) == {t \in repo_tags : t.name # n} \cup {Tag(n, "HEAD")}

RECURSIVE create_tags_loop(_, _, _, _)
\* lines 203-209: the loop over tags, against the names read at line 202;
\* create_tag on a name that exists by now fails in git
create_tags_loop(repo_tags, existing, tags, force) ==
    IF tags = <<>> THEN [tags |-> repo_tags, error |-> ""]
    ELSE IF Head(tags) \in existing /\ ~force
    THEN [tags |-> repo_tags, error |-> "GitTagExistsError"]
    ELSE IF ~force /\ Head(tags) \in TagNamesOf(repo_tags)
    THEN [tags |-> repo_tags, error |-> "GitCommandError"]
    ELSE create_tags_loop(WithTag(repo_tags, Head(tags)), existing, Tail(tags), force)

\* a slip of lines 203-209: all names are checked before the first tag is created
create_tags_Atomic(repo_tags, tags, force) ==
    IF create_tags_loop(repo_tags, TagNamesOf(repo_tags), tags, force).error = ""
    THEN create_tags_loop(repo_tags, TagNamesOf(repo_tags), tags, force)
    ELSE [tags |-> repo_tags,
          error |-> create_tags_loop(repo_tags, TagNamesOf(repo_tags), tags, force).error]

\* a slip of lines 204-207: every tag is written with git tag -f
create_tags_Forced(repo_tags, tags, force) ==
    create_tags_loop(repo_tags, TagNamesOf(repo_tags), tags, TRUE)

\* lines 191-209
create_tags(repo_tags, tags, force) ==
    create_tags_loop(repo_tags, TagNamesOf(repo_tags), tags, force)

RECURSIVE PushedTags(_, _)
\* the remote's tags after a successful git push [--force] remote tags...
PushedTags(remote_tags, tags) ==
    IF tags = <<>> THEN remote_tags
    ELSE PushedTags(WithTag(remote_tags, Head(tags)), Tail(tags))

\* whether git accepts the push: without --force a tag the remote already has
\* at another commit is rejected
PushAccepted(remote_tags, tags, force) ==
    force \/ \A i \in 1..Len(tags) : Tag(tags[i], "old") \notin remote_tags

----------------------------------------------------------------------------
(* cli.py: the release tag command *)

\* a call of a helper, as the command makes it
HelperCall(f, t, frc, rem, b) ==
    [fn |-> f, tags |-> t, force |-> frc, remote |-> rem, bump |-> b]

\* a slip of line 410: every selected tag is treated as the exact tag
exact_tags_All(sel) == sel

\* line 410: exact_tags = selected[:1]
exact_tags(sel) == SubSeq(sel, 1, 1)

\* a slip of line 411: no alias is created or pushed
alias_only_tags_None(sel) == <<>>

\* line 411: alias_only_tags = selected[1:]
alias_only_tags(sel) == SubSeq(sel, 2, Len(sel))

\* the options of the command (cli.py 372-399)
ReleaseTagOptions ==
    [command : {"tag"},
     version_override : {None, Some(<<>>), Some(V_1_2_3), Some(<<"v">> \o V_2_0_0),
                         Some(V_0_1_0 \o <<"-", "r", "c">>), Some(V_1_2_3 \o <<" ">>)},
     alias_tags : AliasTags,
     remote : {"origin", "upstream"}]

\* the options of release preview (cli.py 433-460)
ReleasePreviewOptions ==
    [command : {"preview"},
     version_override : {None, Some(<<>>), Some(V_1_2_3), Some(<<"v">> \o V_2_0_0)},
     alias_tags : AliasTags,
     output : {None, Some("preview.md")}]

\* the options of release notes (cli.py 494-512)
ReleaseNotesOptions ==
    [command : {"notes"},
     version_override : {None, Some(<<>>), Some(V_1_2_3)},
     output : {None, Some("notes.md")}]

\* a slip of line 126: the override is tested for truth, as line 54 of
\* artifact_version.py does
OverrideGiven_Truthy(version_override) == version_override \notin {None, Some(<<>>)}

\* line 126: if version_override is not None
OverrideGiven(version_override) == version_override # None

\* the remotes the repository has
Remotes == {"origin"}

\* the tags a repository may hold before the command
InitialTags ==
    {{},
     {Tag(V_1_2_3, "old")},
     {Tag(<<"v", "1">>, "old"), Tag(<<"v", "2">>, "old")},
     {Tag(V_0_1_0, "old"), Tag(<<"v", "1">>, "old"), Tag(<<"v", "1", ".", "2">>, "old")}}

\* the command ends with an exception: the except clause at 424 names ReleezError
ReleaseTagRaises(e, releez) ==
    /\ rt_outcome' = IF releez THEN CmdExit(e) ELSE CmdUncaught(e)
    /\ rt_pc' = "done"

\* lines 402, 463 and 515: open_repo(), the first statement of the three commands
release_tag_open_repo ==
    /\ rt_pc = "start"
    /\ \E r \in {"ok", "InvalidGitRepositoryError", "MissingCliError", "GitRepoRootResolveError"} :
        IF r = "ok"
        THEN /\ rt_pc' = IF rt_args.command = "tag" THEN "fetch" ELSE "resolve"
             /\ UNCHANGED rt_outcome
        ELSE ReleaseTagRaises(r, r # "InvalidGitRepositoryError")
    /\ UNCHANGED <<rt_args, rt_version, rt_calls, rt_local_tags, rt_remote_tags, rt_stdout, rt_file>>
    /\ UNCHANGED <<avVars, tagVars, selVars, vaVars, relVars, rsVars, thVars, ghVars>>

\* line 403: fetch(repo, remote_name=remote); git_repo.py 102-106
release_tag_fetch ==
    /\ rt_pc = "fetch"
    /\ rt_calls' = Append(rt_calls, HelperCall("fetch", <<>>, FALSE, rt_args.remote, ""))
    /\ IF rt_args.remote \notin Remotes
       THEN /\ ReleaseTagRaises("GitRemoteNotFoundError", TRUE)
            /\ UNCHANGED rt_local_tags
       ELSE \E fetched \in BOOLEAN :
            IF fetched
            THEN /\ rt_local_tags' = rt_local_tags \cup
                        {t \in rt_remote_tags : t.name \notin TagNamesOf(rt_local_tags)}
                 /\ rt_pc' = "resolve"
                 /\ UNCHANGED rt_outcome
            ELSE /\ ReleaseTagRaises("GitCommandError", FALSE)
                 /\ UNCHANGED rt_local_tags
    /\ UNCHANGED <<rt_args, rt_version, rt_remote_tags, rt_stdout, rt_file>>
    /\ UNCHANGED <<avVars, tagVars, selVars, vaVars, relVars, rsVars, thVars, ghVars>>

\* lines 404-407, 464-467, 516-519 and 126-127: the override is given
release_tag_resolve_override ==
    /\ rt_pc = "resolve"
    /\ OverrideGiven(rt_args.version_override)
    /\ rt_version' = Some(rt_args.version_override[1])
    /\ rt_pc' = IF rt_args.command = "notes" THEN "notes" ELSE "validate"
    /\ UNCHANGED <<rt_args, rt_calls, rt_local_tags, rt_remote_tags, rt_outcome, rt_stdout, rt_file>>
    /\ UNCHANGED <<avVars, tagVars, selVars, vaVars, relVars, rsVars, thVars, ghVars>>

\* lines 404-407, 464-467, 516-519 and 128-129:
\* GitCliff(...).compute_next_version(bump='auto')
release_tag_resolve_cliff ==
    /\ rt_pc = "resolve"
    /\ ~OverrideGiven(rt_args.version_override)
    /\ \E env \in {e \in CliffEnvs : e.repo = "ok"} :
        IF ~env.cliff_bin
        THEN /\ ReleaseTagRaises("MissingCliError", TRUE)
             /\ UNCHANGED <<rt_version, rt_calls>>
        ELSE /\ rt_calls' = Append(rt_calls,
                                   HelperCall("compute_next_version", <<>>, FALSE, "", "auto"))
             /\ IF compute_next_version(env).status = "ok"
                THEN /\ rt_version' = Some(compute_next_version(env).value)
                     /\ rt_pc' = IF rt_args.command = "notes" THEN "notes" ELSE "validate"
                     /\ UNCHANGED rt_outcome
                ELSE /\ ReleaseTagRaises(compute_next_version(env).error, TRUE)
                     /\ UNCHANGED rt_version
    /\ UNCHANGED <<rt_args, rt_local_tags, rt_remote_tags, rt_stdout, rt_file>>
    /\ UNCHANGED <<avVars, tagVars, selVars, vaVars, relVars, rsVars, thVars, ghVars>>

\* lines 408 and 469: compute_version_tags(version=version) is entered
release_tag_compute_version_tags ==
    /\ rt_pc = "validate"
    /\ version' = rt_version[1]
    /\ tags_pc' = "call"
    /\ rt_pc' = "validating"
    /\ UNCHANGED tags_result
    /\ UNCHANGED <<rt_args, rt_version, rt_calls, rt_local_tags, rt_remote_tags, rt_outcome,
                   rt_stdout, rt_file>>
    /\ UNCHANGED <<avVars, selVars, vaVars, relVars, rsVars, thVars, ghVars>>

\* lines 408 and 469: compute_version_tags raised InvalidReleaseVersionError
release_tag_invalid_version ==
    /\ rt_pc = "validating"
    /\ tags_pc = "done"
    /\ tags_result.status = "error"
    /\ ReleaseTagRaises(tags_result.error, TRUE)
    /\ UNCHANGED <<rt_args, rt_version, rt_calls, rt_local_tags, rt_remote_tags, rt_stdout, rt_file>>
    /\ UNCHANGED <<avVars, tagVars, selVars, vaVars, relVars, rsVars, thVars, ghVars>>

\* lines 409 and 470: selected = select_tags(tags=tags, aliases=alias_tags)
release_tag_select_tags ==
    /\ rt_pc = "validating"
    /\ tags_pc = "done"
    /\ tags_result.status = "ok"
    /\ aliases' = rt_args.alias_tags
    /\ selected' = select_tags(tags_result, rt_args.alias_tags)
    /\ rt_pc' = IF rt_args.command = "tag" THEN "create_exact" ELSE "preview"
    /\ UNCHANGED reparsed
    /\ UNCHANGED <<rt_args, rt_version, rt_calls, rt_local_tags, rt_remote_tags, rt_outcome,
                   rt_stdout, rt_file>>
    /\ UNCHANGED <<avVars, tagVars, vaVars, relVars, rsVars, thVars, ghVars>>

\* line 413: create_tags(repo, tags=exact_tags, force=False)
release_tag_create_exact ==
    /\ rt_pc = "create_exact"
    /\ rt_calls' = Append(rt_calls,
                          HelperCall("create_tags", exact_tags(selected), FALSE, "", ""))
    /\ rt_local_tags' = create_tags(rt_local_tags, exact_tags(selected), FALSE).tags
    /\ IF create_tags(rt_local_tags, exact_tags(selected), FALSE).error = ""
       THEN rt_pc' = "push_exact" /\ UNCHANGED rt_outcome
       ELSE ReleaseTagRaises(create_tags(rt_local_tags, exact_tags(selected), FALSE).error,
                             create_tags(rt_local_tags, exact_tags(selected), FALSE).error
                                 = "GitTagExistsError")
    /\ UNCHANGED <<rt_args, rt_version, rt_remote_tags, rt_stdout, rt_file>>
    /\ UNCHANGED <<avVars, tagVars, selVars, vaVars, relVars, rsVars, thVars, ghVars>>

\* line 414: push_tags(repo, remote_name=remote, tags=exact_tags, force=False);
\* line 416 chooses what follows
release_tag_push_exact ==
    /\ rt_pc = "push_exact"
    /\ rt_calls' = Append(rt_calls,
                          HelperCall("push_tags", exact_tags(selected), FALSE, rt_args.remote, ""))
    /\ \E connected \in BOOLEAN :
        IF connected /\ PushAccepted(rt_remote_tags, exact_tags(selected), FALSE)
        THEN /\ rt_remote_tags' = PushedTags(rt_remote_tags, exact_tags(selected))
             /\ rt_pc' = IF alias_only_tags(selected) # <<>> THEN "create_alias" ELSE "echo"
             /\ UNCHANGED rt_outcome
        ELSE /\ ReleaseTagRaises("GitCommandError", FALSE)
             /\ UNCHANGED rt_remote_tags
    /\ UNCHANGED <<rt_args, rt_version, rt_local_tags, rt_stdout, rt_file>>
    /\ UNCHANGED <<avVars, tagVars, selVars, vaVars, relVars, rsVars, thVars, ghVars>>

\* line 417: create_tags(repo, tags=alias_only_tags, force=True)
release_tag_create_alias ==
    /\ rt_pc = "create_alias"
    /\ rt_calls' = Append(rt_calls,
                          HelperCall("create_tags", alias_only_tags(selected), TRUE, "", ""))
    /\ rt_local_tags' = create_tags(rt_local_tags, alias_only_tags(selected), TRUE).tags
    /\ rt_pc' = "push_alias"
    /\ UNCHANGED <<rt_args, rt_version, rt_remote_tags, rt_outcome, rt_stdout, rt_file>>
    /\ UNCHANGED <<avVars, tagVars, selVars, vaVars, relVars, rsVars, thVars, ghVars>>

\* lines 418-423: push_tags(repo, remote_name=remote, tags=alias_only_tags, force=True)
release_tag_push_alias ==
    /\ rt_pc = "push_alias"
    /\ rt_calls' = Append(rt_calls,
                          HelperCall("push_tags", alias_only_tags(selected), TRUE,
                                     rt_args.remote, ""))
    /\ \E connected \in BOOLEAN :
        IF connected /\ PushAccepted(rt_remote_tags, alias_only_tags(selected), TRUE)
        THEN /\ rt_remote_tags' = PushedTags(rt_remote_tags, alias_only_tags(selected))
             /\ rt_pc' = "echo"
             /\ UNCHANGED rt_outcome
        ELSE /\ ReleaseTagRaises("GitCommandError", FALSE)
             /\ UNCHANGED rt_remote_tags
    /\ UNCHANGED <<rt_args, rt_version, rt_local_tags, rt_stdout, rt_file>>
    /\ UNCHANGED <<avVars, tagVars, selVars, vaVars, relVars, rsVars, thVars, ghVars>>

\* lines 428-429: for tag in selected: typer.echo(tag)
release_tag_echo ==
    /\ rt_pc = "echo"
    /\ rt_stdout' = selected
    /\ rt_outcome' = CmdOk
    /\ rt_pc' = "done"
    /\ UNCHANGED <<rt_args, rt_version, rt_calls, rt_local_tags, rt_remote_tags, rt_file>>
    /\ UNCHANGED <<avVars, tagVars, selVars, vaVars, relVars, rsVars, thVars, ghVars>>

InitReleaseTag ==
    /\ rt_args \in ReleaseTagOptions
    /\ rt_pc = "start"
    /\ rt_version = None
    /\ rt_calls = <<>>
    /\ rt_local_tags \in InitialTags
    /\ rt_remote_tags \in InitialTags
    /\ rt_outcome = CmdRunning
    /\ rt_stdout = <<>>
    /\ rt_file = <<>>
    /\ ArtifactIdle
    /\ TagsIdle
    /\ VersionArtifactIdle
    /\ StartReleaseIdle
    /\ ReleaseStartIdle
    /\ ThreadsIdle
    /\ GithubIdle

NextReleaseTag ==
    \/ release_tag_open_repo
    \/ release_tag_fetch
    \/ release_tag_resolve_override
    \/ release_tag_resolve_cliff
    \/ release_tag_compute_version_tags
    \/ compute_version_tags_parse_error
    \/ compute_version_tags_not_full_release
    \/ compute_version_tags_return
    \/ release_tag_invalid_version
    \/ release_tag_select_tags
    \/ release_tag_create_exact
    \/ release_tag_push_exact
    \/ release_tag_create_alias
    \/ release_tag_push_alias
    \/ release_tag_echo

SpecReleaseTag == InitReleaseTag /\ [][NextReleaseTag]_vars

----------------------------------------------------------------------------
(* git_repo.py: create_tags called with a list of tags *)

\* the longest list of tags passed
MaxTags == 3

TagNames == {V_0_1_0, V_1_2_3, <<"v", "1">>, <<"v", "2">>}

TagLists == UNION {[1..n -> TagNames] : n \in 0..MaxTags}

\* git_repo.py 191-209: the whole call; an exception leaves the function
create_tags_call ==
    /\ rt_pc = "create_tags"
    /\ rt_calls' = Append(rt_calls,
                          HelperCall("create_tags", rt_args.tags, rt_args.force, "", ""))
    /\ rt_local_tags' = create_tags(rt_local_tags, rt_args.tags, rt_args.force).tags
    /\ rt_outcome' =
           IF create_tags(rt_local_tags, rt_args.tags, rt_args.force).error = "" THEN CmdOk
           ELSE CmdUncaught(create_tags(rt_local_tags, rt_args.tags, rt_args.force).error)
    /\ rt_pc' = "done"
    /\ UNCHANGED <<rt_args, rt_version, rt_remote_tags, rt_stdout, rt_file>>
    /\ UNCHANGED <<avVars, tagVars, selVars, vaVars, relVars, rsVars, thVars, ghVars>>

InitCreateTags ==
    /\ rt_args \in [command : {"create_tags"}, tags : TagLists, force : BOOLEAN]
    /\ rt_pc = "create_tags"
    /\ rt_version = None
    /\ rt_calls = <<>>
    /\ rt_local_tags \in InitialTags
    /\ rt_remote_tags = {}
    /\ rt_outcome = CmdRunning
    /\ rt_stdout = <<>>
    /\ rt_file = None
    /\ ArtifactIdle
    /\ TagsIdle
    /\ VersionArtifactIdle
    /\ StartReleaseIdle
    /\ ReleaseStartIdle
    /\ ThreadsIdle
    /\ GithubIdle

NextCreateTags == create_tags_call

SpecCreateTags == InitCreateTags /\ [][NextCreateTags]_vars

\* the first position of the list whose name is one of the repository's tags
\* or occurs earlier in the list; Len + 1 when there is none
FirstRefused(repo_tags, tags) ==
    LET refused == {k \in 1..Len(tags) :
                      \/ tags[k] \in TagNamesOf(repo_tags)
                      \/ \E j \in 1..(k - 1) : tags[j] = tags[k]}
    IN  IF refused = {} THEN Len(tags) + 1
        ELSE CHOOSE k \in refused : \A j \in refused : k <= j

\* what a create_tags call with force false does to the repository
CreateTagsUnforced ==
    (rt_pc = "create_tags" /\ ~rt_args.force) =>
        LET k == FirstRefused(rt_local_tags, rt_args.tags) IN
        /\ rt_local_tags \subseteq rt_local_tags'
        /\ rt_local_tags' =
               rt_local_tags \cup {Tag(rt_args.tags[j], "HEAD") : j \in 1..(k - 1)}
        /\ \A j \in k..Len(rt_args.tags) :
               rt_args.tags[j] \in TagNamesOf(rt_local_tags')
                   => \/ rt_args.tags[j] \in TagNamesOf(rt_local_tags)
                      \/ \E i \in 1..(k - 1) : rt_args.tags[i] = rt_args.tags[j]
        /\ rt_outcome' =
               IF k > Len(rt_args.tags) THEN CmdOk
               ELSE IF rt_args.tags[k] \in TagNamesOf(rt_local_tags)
               THEN CmdUncaught("GitTagExistsError")
               ELSE CmdUncaught("GitCommandError")

\* C29: a create_tags call with force false leaves every tag the repository
\* had where it was, and creates at HEAD exactly the tags of the list that
\* come before the first name that the repository already had (the call then
\* raises GitTagExistsError) or that occurs earlier in the list (git then
\* refuses the second creation); the tags from that position on are not
\* created, those before it stay.
C29_CreateTagsNotAtomic == [][CreateTagsUnforced]_vars

C29_Witness ==
    /\ rt_pc = "done"
    /\ rt_args.command = "create_tags"
    /\ ~rt_args.force
    /\ rt_args.tags = <<V_0_1_0, V_1_2_3, <<"v", "2">> >>
    /\ rt_outcome = CmdUncaught("GitTagExistsError")
    /\ rt_local_tags = {Tag(V_1_2_3, "old"), Tag(V_0_1_0, "HEAD")}

----------------------------------------------------------------------------
(* cli.py: the release preview and release notes commands *)

\* lines 472-481: the lines of the markdown that depend on the release: the
\* version line and one line for each tag
PreviewMarkdown(v, tags) == <<v>> \o tags

\* lines 483-487 and 523-527: the text goes to the file of --output or to
\* stdout; write_text may fail with an OSError, which no handler catches
release_write(text) ==
    IF rt_args.output # None
    THEN /\ \E written \in BOOLEAN :
                IF written
                THEN /\ rt_file' = Some(text)
                     /\ rt_outcome' = CmdOk
                ELSE /\ rt_outcome' = CmdUncaught("OSError")
                     /\ UNCHANGED rt_file
         /\ UNCHANGED rt_stdout
    ELSE /\ rt_stdout' = text
         /\ rt_outcome' = CmdOk
         /\ UNCHANGED rt_file

\* lines 472-487 of release_preview
release_preview_write ==
    /\ rt_pc = "preview"
    /\ release_write(PreviewMarkdown(rt_version[1], selected))
    /\ rt_pc' = "done"
    /\ UNCHANGED <<rt_args, rt_version, rt_calls, rt_local_tags, rt_remote_tags>>
    /\ UNCHANGED <<avVars, tagVars, selVars, vaVars, relVars, rsVars, thVars, ghVars>>

\* lines 520-527 of release_notes: GitCliff(...).generate_unreleased_notes
\* (cliff.py 88-119) writes the section of the version, which is then written out
release_notes_generate ==
    /\ rt_pc = "notes"
    /\ \E r \in {"ok", "MissingCliError", "ExternalCommandError"} :
        /\ rt_calls' = IF r = "MissingCliError" THEN rt_calls
                       ELSE Append(rt_calls,
                                   HelperCall("generate_unreleased_notes", <<rt_version[1]>>,
                                              FALSE, "", ""))
        /\ IF r = "ok"
           THEN /\ release_write(<<rt_version[1]>>)
                /\ rt_pc' = "done"
           ELSE /\ ReleaseTagRaises(r, TRUE)
                /\ UNCHANGED <<rt_stdout, rt_file>>
    /\ UNCHANGED <<rt_args, rt_version, rt_local_tags, rt_remote_tags>>
    /\ UNCHANGED <<avVars, tagVars, selVars, vaVars, relVars, rsVars, thVars, ghVars>>

\* one release command is invoked: tag, preview or notes
InitRelease ==
    /\ rt_args \in ReleaseTagOptions \cup ReleasePreviewOptions \cup ReleaseNotesOptions
    /\ rt_pc = "start"
    /\ rt_version = None
    /\ rt_calls = <<>>
    /\ rt_local_tags \in InitialTags
    /\ rt_remote_tags \in InitialTags
    /\ rt_outcome = CmdRunning
    /\ rt_stdout = <<>>
    /\ rt_file = None
    /\ ArtifactIdle
    /\ TagsIdle
    /\ VersionArtifactIdle
    /\ StartReleaseIdle
    /\ ReleaseStartIdle
    /\ ThreadsIdle
    /\ GithubIdle

NextRelease ==
    \/ NextReleaseTag
    \/ release_preview_write
    \/ release_notes_generate

SpecRelease == InitRelease /\ [][NextRelease]_vars

----------------------------------------------------------------------------
(* Claims about the release tag command *)

\* the command returned normally
ReleaseTagReturned == rt_pc = "done" /\ rt_outcome = CmdOk

IsTagCall(c) == c.fn \in {"create_tags", "push_tags"}

\* the create_tags and push_tags calls made so far, in order
TagCalls == SelectSeq(rt_calls, IsTagCall)

IsResolveCall(c) == c.fn = "compute_next_version"

\* the compute_next_version calls made so far
ResolveCalls == SelectSeq(rt_calls, IsResolveCall)

\* the command has a release version
VersionResolved == rt_pc \notin {"start", "fetch", "resolve"} /\ rt_version # None

\* C21: in release tag, release preview and release notes, when
\* --version-override is given (an empty value included) the release version
\* is that value and compute_next_version is never called; when it is not
\* given, a command that has a release version has it from exactly one
\* compute_next_version call, made with bump mode auto, and no command makes
\* more than one such call.  The version resolved is the one the later steps
\* validate and write.
C21_VersionOverrideOrCliff ==
    /\ rt_args.version_override # None =>
        /\ ResolveCalls = <<>>
        /\ VersionResolved => rt_version = rt_args.version_override
    /\ rt_args.version_override = None =>
        /\ \A i \in 1..Len(ResolveCalls) :
               ResolveCalls[i] = HelperCall("compute_next_version", <<>>, FALSE, "", "auto")
        /\ Len(ResolveCalls) <= 1
        /\ VersionResolved => Len(ResolveCalls) = 1
    /\ rt_pc \in {"validating", "create_exact", "push_exact", "create_alias", "push_alias",
                  "echo", "preview"} => version = rt_version[1]
    /\ rt_pc = "done" /\ rt_outcome = CmdOk /\ rt_args.command # "tag" =>
           rt_version[1] = IF rt_file # None THEN rt_file[1][1] ELSE rt_stdout[1]

C21_Witness ==
    /\ rt_args.command = "notes"
    /\ rt_args.version_override = Some(<<>>)
    /\ rt_pc = "done"
    /\ rt_outcome = CmdOk
    /\ rt_stdout = << <<>> >>
    /\ ResolveCalls = <<>>

\* the release version is not X.Y.Z once the whitespace around it and one
\* leading v are removed
InvalidRelease == ~IsThreeNumeric(WithoutOneV(Trimmed(rt_version[1])))

\* C23: in release tag, compute_version_tags has accepted the release version
\* before select_tags runs and before any create_tags or push_tags call; a
\* command whose release version is not a full release X.Y.Z ends with
\* InvalidReleaseVersionError and exit code 1, having made no create_tags or
\* push_tags call and printed nothing.
C23_ValidatedBeforeTags ==
    /\ (TagCalls # <<>> \/ selected # <<>>
           \/ rt_pc \in {"create_exact", "push_exact", "create_alias", "push_alias", "echo"}) =>
        /\ tags_pc = "done"
        /\ tags_result.status = "ok"
        /\ version = rt_version[1]
        /\ ~InvalidRelease
    /\ (rt_pc = "done" /\ VersionResolved /\ InvalidRelease) =>
        /\ rt_outcome = CmdExit("InvalidReleaseVersionError")
        /\ rt_outcome.exit_code = 1
        /\ TagCalls = <<>>
        /\ selected = <<>>
        /\ rt_stdout = <<>>
    /\ (rt_pc = "done" /\ rt_outcome = CmdExit("InvalidReleaseVersionError")) =>
        VersionResolved /\ InvalidRelease

C23_Witness ==
    /\ rt_args.command = "tag"
    /\ rt_args.version_override = Some(V_0_1_0 \o <<"-", "r", "c">>)
    /\ rt_pc = "done"
    /\ rt_outcome = CmdExit("InvalidReleaseVersionError")
    /\ Len(rt_calls) = 1
    /\ rt_calls[1].fn = "fetch"

\* an alias tag name: vX or vX.Y; an exact tag never begins with v
IsAliasName(n) == n # <<>> /\ n[1] = "v"

\* the exact tags of a repository
ExactTagsOf(repo_tags) == {t \in repo_tags : ~IsAliasName(t.name)}

\* no exact tag is removed or re-pointed by a step, locally or on the remote
ExactTagsStay ==
    /\ ExactTagsOf(rt_local_tags) \subseteq rt_local_tags'
    /\ ExactTagsOf(rt_remote_tags) \subseteq rt_remote_tags'

\* what the calls made so far say about force and order
ExactBeforeAliases ==
    /\ \A i \in 1..Len(TagCalls) :
        /\ TagCalls[i].force = (i >= 3)
        /\ \A k \in 1..Len(TagCalls[i].tags) :
               IsAliasName(TagCalls[i].tags[k]) = TagCalls[i].force
    /\ Len(TagCalls) >= 1 => TagCalls[1] = HelperCall("create_tags", <<selected[1]>>, FALSE, "", "")
    /\ Len(TagCalls) >= 2 =>
        /\ TagCalls[2] = HelperCall("push_tags", <<selected[1]>>, FALSE, rt_args.remote, "")
        /\ Tag(selected[1], "HEAD") \in rt_local_tags
    /\ Len(TagCalls) >= 3 =>
        /\ Tag(selected[1], "HEAD") \in rt_remote_tags
        /\ \A k \in 2..Len(selected) : Tag(selected[k], "HEAD") \in rt_local_tags
        /\ \A k \in 2..Len(selected) : Tag(selected[k], "old") \notin rt_local_tags
    /\ ReleaseTagReturned =>
        \A k \in 1..Len(selected) :
            /\ Tag(selected[k], "HEAD") \in rt_remote_tags
            /\ Tag(selected[k], "old") \notin rt_remote_tags
    /\ rt_outcome = CmdExit("GitTagExistsError") =>
        /\ TagCalls = <<HelperCall("create_tags", <<selected[1]>>, FALSE, "", "")>>
        /\ Tag(selected[1], "old") \in rt_local_tags
    /\ (rt_pc = "done" /\ TagCalls # <<>> /\ Tag(selected[1], "old") \in rt_local_tags) =>
        rt_outcome = CmdExit("GitTagExistsError")

C24_Exists ==
    /\ rt_outcome = CmdExit("GitTagExistsError")
    /\ rt_args.alias_tags = "minor"
    /\ Tag(V_1_2_3, "old") \in rt_local_tags
    /\ Len(TagCalls) = 1

\* the tags named by the create_tags calls, and by the push_tags calls, so far
CreatedNames ==
    UNION {{TagCalls[i].tags[k] : k \in 1..Len(TagCalls[i].tags)} :
             i \in {j \in 1..Len(TagCalls) : TagCalls[j].fn = "create_tags"}}

PushedNames ==
    UNION {{TagCalls[i].tags[k] : k \in 1..Len(TagCalls[i].tags)} :
             i \in {j \in 1..Len(TagCalls) : TagCalls[j].fn = "push_tags"}}

\* C25: release tag has printed something only when it returned, and then it
\* printed the selected tags, each of which a create_tags and a push_tags call
\* named and which is at HEAD locally and on the remote; a command that ended
\* with a ReleezError, raised by fetch, version resolution, validation or tag
\* creation, has exit code 1 and printed nothing, and so has one that ended
\* with any other exception.
C25_PrintsAfterPush ==
    /\ rt_stdout # <<>> =>
        /\ ReleaseTagReturned
        /\ rt_stdout = selected
        /\ \A k \in 1..Len(selected) :
            /\ selected[k] \in CreatedNames \cap PushedNames
            /\ Tag(selected[k], "HEAD") \in rt_local_tags \cap rt_remote_tags
    /\ ReleaseTagReturned => rt_stdout # <<>>
    /\ rt_outcome.status = "exit" =>
        /\ rt_pc = "done"
        /\ rt_outcome.exit_code = 1
        /\ rt_outcome.error \in
               {"MissingCliError", "GitRepoRootResolveError", "GitRemoteNotFoundError",
                "ExternalCommandError", "GitCliffVersionComputeError",
                "InvalidReleaseVersionError", "GitTagExistsError"}
        /\ rt_stdout = <<>>
    /\ rt_outcome.status = "uncaught" => rt_stdout = <<>>

C25_Witness ==
    /\ rt_pc = "done"
    /\ rt_args.remote = "upstream"
    /\ rt_outcome = CmdExit("GitRemoteNotFoundError")
    /\ rt_calls = <<HelperCall("fetch", <<>>, FALSE, "upstream", "")>>
    /\ rt_stdout = <<>>

\* the tags are printed after the fourth call
C25_Printed ==
    /\ ReleaseTagReturned
    /\ Len(TagCalls) = 4
    /\ Len(rt_stdout) = 3

\* release preview without an override has asked git-cliff once
C21_CliffOnce ==
    /\ rt_args.command = "preview"
    /\ rt_args.version_override = None
    /\ rt_pc = "done"
    /\ rt_outcome = CmdOk
    /\ Len(ResolveCalls) = 1

----------------------------------------------------------------------------
(* release.py: start_release *)

\* the field names of the dataclass StartReleaseInput (release.py 61-69)
StartReleaseInputFields ==
    {"bump", "base_branch", "remote_name", "labels", "title_prefix", "changelog_path",
     "create_pr", "github_token", "dry_run"}

BaseBranch == <<"m", "a", "s", "t", "e", "r">>
FormatCommand == <<"dprint", "fmt", "{changelog}">>

\* keyword arguments naming exactly the fields of StartReleaseInput
FieldKwargs ==
    [bump : {"auto", "minor"},
     base_branch : {BaseBranch},
     remote_name : {"origin", "upstream"},
     labels : {<<>>},
     title_prefix : {"chore(release): "},
     changelog_path : {"CHANGELOG.md"},
     create_pr : BOOLEAN,
     github_token : {None, Some(""), Some("token")},
     dry_run : BOOLEAN]

\* the keyword arguments cli.py 257-270 and the tests pass: the fields and
\* version_override, run_changelog_format, changelog_format_cmd
ExtendedKwargs ==
    [bump : {"auto"},
     version_override : {None, Some(V_1_2_3)},
     base_branch : {BaseBranch},
     remote_name : {"origin"},
     labels : {<<>>},
     title_prefix : {"chore(release): "},
     changelog_path : {"CHANGELOG.md"},
     run_changelog_format : BOOLEAN,
     changelog_format_cmd : {None, Some(FormatCommand)},
     create_pr : BOOLEAN,
     github_token : {None, Some("token")},
     dry_run : BOOLEAN]

\* line 161: release_branch = f'release/{version}'
ReleaseBranch(v) == <<"r", "e", "l", "e", "a", "s", "e", "/">> \o v

\* line 142 onwards, remote-tracking ref f'{remote_name}/{branch}' of the base branch
BaseRef == <<"o", "r", "i", "g", "i", "n", "/">> \o BaseBranch

\* the repositories start_release may be called in
StartRepos ==
    [head : {BaseBranch},
     branches : {{BaseBranch}, {BaseBranch, ReleaseBranch(V_0_1_0)}},
     dirty : BOOLEAN,
     base_on_remote : BOOLEAN,
     remote_refs : {"stale"},
     changelog_exists : BOOLEAN,
     changelog_sections : {0},
     commits : {0},
     pushed : {{}},
     pull_requests : {0}]

NoResult ==
    [status |-> "none", version |-> <<>>, notes |-> "", release_branch |-> None,
     pr_url |-> None, error |-> ""]

\* StartReleaseResult (lines 153-158 and 197-202)
StartReleaseResult(v, n, b, u) ==
    [status |-> "returned", version |-> v, notes |-> n, release_branch |-> b,
     pr_url |-> u, error |-> ""]

\* an exception leaves start_release
StartReleaseRaises(e) ==
    /\ rel_result' = [NoResult EXCEPT !.status = "raised", !.error = e]
    /\ rel_pc' = "done"

\* one more operation executed
Executes(op) == rel_ops' = Append(rel_ops, op)

\* a slip of line 143: the base branch is checked out in a dry run too
SkipsCheckout_Never(kwargs) == FALSE

\* line 143: if not release_input.dry_run
SkipsCheckout(kwargs) == kwargs.dry_run

\* a slip of git_repo.py 88: the working tree is never found dirty
IsDirty_Never(repo) == FALSE

\* git_repo.py 88: repo.is_dirty(untracked_files=True)
IsDirty(repo) == repo.dirty

\* a slip of line 167: the changelog is taken to exist
ChangelogExists_Unchecked(repo) == TRUE

\* line 167: changelog.exists()
ChangelogExists(repo) == repo.changelog_exists

\* a slip of line 102: only an absent token is refused
TokenMissing_NoneOnly(kwargs) == kwargs.github_token = None

\* line 102: if not pr_input.github_token
TokenMissing(kwargs) == kwargs.github_token \in {None, Some("")}

\* the caller constructs StartReleaseInput(**rel_kwargs)
start_release_input ==
    /\ rel_pc = "construct"
    /\ IF DataclassInit(StartReleaseInputFields, rel_kwargs).status = "ok"
       THEN rel_pc' = "open_repo" /\ UNCHANGED rel_result
       ELSE StartReleaseRaises(DataclassInit(StartReleaseInputFields, rel_kwargs).error)
    /\ UNCHANGED <<rel_kwargs, rel_repo, rel_ops, rel_version>>
    /\ UNCHANGED <<avVars, tagVars, selVars, vaVars, rtVars, rsVars, thVars, ghVars>>

\* line 138: open_repo()
start_release_open_repo ==
    /\ rel_pc = "open_repo"
    /\ \E r \in {"ok", "InvalidGitRepositoryError", "GitRepoRootResolveError"} :
        IF r = "ok" THEN rel_pc' = "ensure_clean" /\ UNCHANGED rel_result
        ELSE StartReleaseRaises(r)
    /\ UNCHANGED <<rel_kwargs, rel_repo, rel_ops, rel_version>>
    /\ UNCHANGED <<avVars, tagVars, selVars, vaVars, rtVars, rsVars, thVars, ghVars>>

\* line 139: ensure_clean(repo); git_repo.py 88-89
start_release_ensure_clean ==
    /\ rel_pc = "ensure_clean"
    /\ IF IsDirty(rel_repo) THEN StartReleaseRaises("DirtyWorkingTreeError")
       ELSE rel_pc' = "fetch" /\ UNCHANGED rel_result
    /\ UNCHANGED <<rel_kwargs, rel_repo, rel_ops, rel_version>>
    /\ UNCHANGED <<avVars, tagVars, selVars, vaVars, rtVars, rsVars, thVars, ghVars>>

\* line 140: fetch(repo, remote_name=...); git_repo.py 102-106
start_release_fetch ==
    /\ rel_pc = "fetch"
    /\ IF rel_kwargs.remote_name \notin Remotes
       THEN /\ StartReleaseRaises("GitRemoteNotFoundError")
            /\ UNCHANGED <<rel_repo, rel_ops>>
       ELSE \E fetched \in BOOLEAN :
            /\ Executes("fetch")
            /\ IF fetched
               THEN /\ rel_repo' = [rel_repo EXCEPT !.remote_refs = "fetched"]
                    /\ rel_pc' = "git_cliff"
                    /\ UNCHANGED rel_result
               ELSE /\ StartReleaseRaises("GitCommandError")
                    /\ UNCHANGED rel_repo
    /\ UNCHANGED <<rel_kwargs, rel_version>>
    /\ UNCHANGED <<avVars, tagVars, selVars, vaVars, rtVars, rsVars, thVars, ghVars>>

\* line 142: GitCliff(repo_root=info.root); line 143 chooses what follows
start_release_git_cliff ==
    /\ rel_pc = "git_cliff"
    /\ \E found \in BOOLEAN :
        IF found
        THEN /\ rel_pc' = IF SkipsCheckout(rel_kwargs) THEN "compute_next_version"
                                                        ELSE "checkout"
             /\ UNCHANGED rel_result
        ELSE StartReleaseRaises("MissingCliError")
    /\ UNCHANGED <<rel_kwargs, rel_repo, rel_ops, rel_version>>
    /\ UNCHANGED <<avVars, tagVars, selVars, vaVars, rtVars, rsVars, thVars, ghVars>>

\* lines 143-148: checkout_remote_branch; git_repo.py 126-136
start_release_checkout_remote_branch ==
    /\ rel_pc = "checkout"
    /\ IF rel_repo.base_on_remote
       THEN /\ Executes("checkout_remote_branch")
            /\ rel_repo' = [rel_repo EXCEPT !.head = BaseRef]
            /\ rel_pc' = "compute_next_version"
            /\ UNCHANGED rel_result
       ELSE /\ StartReleaseRaises("GitRemoteBranchNotFoundError")
            /\ UNCHANGED <<rel_repo, rel_ops>>
    /\ UNCHANGED <<rel_kwargs, rel_version>>
    /\ UNCHANGED <<avVars, tagVars, selVars, vaVars, rtVars, rsVars, thVars, ghVars>>

\* line 150: version = cliff.compute_next_version(bump=release_input.bump)
start_release_compute_next_version ==
    /\ rel_pc = "compute_next_version"
    /\ Executes("compute_next_version")
    /\ \E env \in {e \in CliffEnvs : e.repo = "ok" /\ e.cliff_bin} :
        IF compute_next_version(env).status = "ok"
        THEN /\ rel_version' = compute_next_version(env).value
             /\ rel_pc' = "notes"
             /\ UNCHANGED rel_result
        ELSE /\ StartReleaseRaises(compute_next_version(env).error)
             /\ UNCHANGED rel_version
    /\ UNCHANGED <<rel_kwargs, rel_repo>>
    /\ UNCHANGED <<avVars, tagVars, selVars, vaVars, rtVars, rsVars, thVars, ghVars>>

\* line 151: notes = cliff.generate_unreleased_notes(version=version)
start_release_generate_unreleased_notes ==
    /\ rel_pc = "notes"
    /\ Executes("generate_unreleased_notes")
    /\ \E generated \in BOOLEAN :
        IF generated
        THEN /\ rel_pc' = IF rel_kwargs.dry_run THEN "dry_run_return" ELSE "create_branch"
             /\ UNCHANGED rel_result
        ELSE StartReleaseRaises("ExternalCommandError")
    /\ UNCHANGED <<rel_kwargs, rel_repo, rel_version>>
    /\ UNCHANGED <<avVars, tagVars, selVars, vaVars, rtVars, rsVars, thVars, ghVars>>

\* lines 153-159: the dry-run return
start_release_dry_run_return ==
    /\ rel_pc = "dry_run_return"
    /\ rel_result' = StartReleaseResult(rel_version, "notes", None, None)
    /\ rel_pc' = "done"
    /\ UNCHANGED <<rel_kwargs, rel_repo, rel_ops, rel_version>>
    /\ UNCHANGED <<avVars, tagVars, selVars, vaVars, rtVars, rsVars, thVars, ghVars>>

\* lines 161-162: create_and_checkout_branch; git_repo.py 151-158
start_release_create_and_checkout_branch ==
    /\ rel_pc = "create_branch"
    /\ IF ReleaseBranch(rel_version) \in rel_repo.branches
       THEN /\ StartReleaseRaises("GitBranchExistsError")
            /\ UNCHANGED <<rel_repo, rel_ops>>
       ELSE /\ Executes("create_and_checkout_branch")
            /\ rel_repo' = [rel_repo EXCEPT !.branches = @ \cup {ReleaseBranch(rel_version)},
                                            !.head = ReleaseBranch(rel_version)]
            /\ rel_pc' = "changelog"
            /\ UNCHANGED rel_result
    /\ UNCHANGED <<rel_kwargs, rel_version>>
    /\ UNCHANGED <<avVars, tagVars, selVars, vaVars, rtVars, rsVars, thVars, ghVars>>

\* lines 164-168: the changelog file must exist
start_release_changelog_exists ==
    /\ rel_pc = "changelog"
    /\ IF ChangelogExists(rel_repo) THEN rel_pc' = "prepend" /\ UNCHANGED rel_result
       ELSE StartReleaseRaises("ChangelogNotFoundError")
    /\ UNCHANGED <<rel_kwargs, rel_repo, rel_ops, rel_version>>
    /\ UNCHANGED <<avVars, tagVars, selVars, vaVars, rtVars, rsVars, thVars, ghVars>>

\* line 170: cliff.prepend_to_changelog(version=version, changelog_path=changelog)
start_release_prepend_to_changelog ==
    /\ rel_pc = "prepend"
    /\ Executes("prepend_to_changelog")
    /\ \E prepended \in BOOLEAN :
        IF prepended
        THEN /\ rel_repo' = [rel_repo EXCEPT !.changelog_sections = @ + 1, !.dirty = TRUE]
             /\ rel_pc' = "commit"
             /\ UNCHANGED rel_result
        ELSE /\ StartReleaseRaises("ExternalCommandError")
             /\ UNCHANGED rel_repo
    /\ UNCHANGED <<rel_kwargs, rel_version>>
    /\ UNCHANGED <<avVars, tagVars, selVars, vaVars, rtVars, rsVars, thVars, ghVars>>

\* lines 171-175: commit_file
start_release_commit_file ==
    /\ rel_pc = "commit"
    /\ Executes("commit_file")
    /\ rel_repo' = [rel_repo EXCEPT !.commits = @ + 1, !.dirty = FALSE]
    /\ rel_pc' = "push"
    /\ UNCHANGED <<rel_kwargs, rel_version, rel_result>>
    /\ UNCHANGED <<avVars, tagVars, selVars, vaVars, rtVars, rsVars, thVars, ghVars>>

\* lines 177-181: push_set_upstream
start_release_push_set_upstream ==
    /\ rel_pc = "push"
    /\ Executes("push_set_upstream")
    /\ \E pushed \in BOOLEAN :
        IF pushed
        THEN /\ rel_repo' = [rel_repo EXCEPT !.pushed = @ \cup {ReleaseBranch(rel_version)}]
             /\ rel_pc' = "pull_request"
             /\ UNCHANGED rel_result
        ELSE /\ StartReleaseRaises("GitCommandError")
             /\ UNCHANGED rel_repo
    /\ UNCHANGED <<rel_kwargs, rel_version>>
    /\ UNCHANGED <<avVars, tagVars, selVars, vaVars, rtVars, rsVars, thVars, ghVars>>

\* lines 183-202 and _maybe_create_pull_request (97-121): no pull request asked
\* for, no token, or create_pull_request called; then the return
start_release_maybe_create_pull_request ==
    /\ rel_pc = "pull_request"
    /\ IF ~rel_kwargs.create_pr
       THEN /\ rel_result' = StartReleaseResult(rel_version, "notes",
                                                Some(ReleaseBranch(rel_version)), None)
            /\ rel_pc' = "done"
            /\ UNCHANGED <<rel_repo, rel_ops>>
       ELSE IF TokenMissing(rel_kwargs)
       THEN /\ StartReleaseRaises("GitHubTokenRequiredError")
            /\ UNCHANGED <<rel_repo, rel_ops>>
       ELSE \E r \in {"ok", "GitRemoteUrlRequiredError", "InvalidGitHubRemoteError",
                      "MissingGitHubDependencyError", "GithubException"} :
            IF r = "GitRemoteUrlRequiredError"
            THEN /\ StartReleaseRaises(r)
                 /\ UNCHANGED <<rel_repo, rel_ops>>
            ELSE /\ Executes("create_pull_request")
                 /\ IF r = "ok"
                    THEN /\ rel_repo' = [rel_repo EXCEPT !.pull_requests = @ + 1]
                         /\ rel_result' = StartReleaseResult(rel_version, "notes",
                                                Some(ReleaseBranch(rel_version)), Some("url"))
                         /\ rel_pc' = "done"
                    ELSE /\ StartReleaseRaises(r)
                         /\ UNCHANGED rel_repo
    /\ UNCHANGED <<rel_kwargs, rel_version>>
    /\ UNCHANGED <<avVars, tagVars, selVars, vaVars, rtVars, rsVars, thVars, ghVars>>

InitStartRelease ==
    /\ rel_kwargs \in FieldKwargs \cup ExtendedKwargs
    /\ rel_pc = "construct"
    /\ rel_repo \in StartRepos
    /\ rel_ops = <<>>
    /\ rel_version = <<>>
    /\ rel_result = NoResult
    /\ ArtifactIdle
    /\ TagsIdle
    /\ VersionArtifactIdle
    /\ ReleaseTagIdle
    /\ ReleaseStartIdle
    /\ ThreadsIdle
    /\ GithubIdle

NextStartRelease ==
    \/ start_release_input
    \/ start_release_open_repo
    \/ start_release_ensure_clean
    \/ start_release_fetch
    \/ start_release_git_cliff
    \/ start_release_checkout_remote_branch
    \/ start_release_compute_next_version
    \/ start_release_generate_unreleased_notes
    \/ start_release_dry_run_return
    \/ start_release_create_and_checkout_branch
    \/ start_release_changelog_exists
    \/ start_release_prepend_to_changelog
    \/ start_release_commit_file
    \/ start_release_push_set_upstream
    \/ start_release_maybe_create_pull_request

SpecStartRelease == InitStartRelease /\ [][NextStartRelease]_vars

----------------------------------------------------------------------------
(* Claims about start_release *)

\* the operations a dry run must not execute
ModifyingOps ==
    {"checkout_remote_branch", "create_and_checkout_branch", "prepend_to_changelog",
     "commit_file", "push_set_upstream", "create_pull_request"}

Executed(op) == \E i \in 1..Len(rel_ops) : rel_ops[i] = op

StepErrors ==
    {"InvalidGitRepositoryError", "GitRepoRootResolveError", "DirtyWorkingTreeError",
     "GitRemoteNotFoundError", "GitCommandError", "MissingCliError",
     "GitRemoteBranchNotFoundError", "ExternalCommandError", "GitCliffVersionComputeError",
     "GitBranchExistsError", "ChangelogNotFoundError", "GitHubTokenRequiredError",
     "GitRemoteUrlRequiredError", "InvalidGitHubRemoteError", "MissingGitHubDependencyError",
     "GithubException"}

\* C18: a non-dry-run start_release called with run_changelog_format true and a
\* format command, in which no step fails, runs the format command exactly
\* once, after the new section was prepended to the changelog.
C18_FormatCommandRuns ==
    (/\ rel_pc = "done"
     /\ "run_changelog_format" \in DOMAIN rel_kwargs
     /\ rel_kwargs.run_changelog_format
     /\ rel_kwargs.changelog_format_cmd # None
     /\ ~rel_kwargs.dry_run
     /\ rel_result.error \notin StepErrors) =>
        /\ rel_result.status = "returned"
        /\ \E i \in 1..Len(rel_ops) :
            /\ rel_ops[i] = "run_checked(changelog_format_cmd)"
            /\ \E j \in 1..(i - 1) : rel_ops[j] = "prepend_to_changelog"
            /\ \A k \in 1..Len(rel_ops) : rel_ops[k] = rel_ops[i] => k = i

\* the position of the first execution of op, 0 when there is none
OpIndex(op) ==
    IF Executed(op) THEN CHOOSE i \in 1..Len(rel_ops) :
                             rel_ops[i] = op /\ \A j \in 1..(i - 1) : rel_ops[j] # op
    ELSE 0

\* start_release ended before ensure_clean was reached
EndedBeforeEnsureClean ==
    rel_result.error \in {"TypeError", "InvalidGitRepositoryError", "GitRepoRootResolveError"}

\* C26: start_release, once it has opened the repository, checks the working
\* tree first: called with a dirty tree, in a dry run or not, it ends with
\* DirtyWorkingTreeError having executed no fetch, checkout, version
\* computation, notes generation, branch creation, changelog prepend, commit,
\* push or pull-request creation, and the repository is as it was; no later
\* step is ever reached with a tree that was dirty at the call.
C26_CleanTreeFirst ==
    /\ rel_result.error = "DirtyWorkingTreeError" =>
        /\ rel_pc = "done"
        /\ rel_ops = <<>>
        /\ rel_version = <<>>
        /\ rel_repo \in StartRepos
        /\ rel_repo.dirty
    /\ (rel_pc = "done" /\ rel_repo.dirty /\ ~EndedBeforeEnsureClean) =>
        rel_result.error = "DirtyWorkingTreeError"
    /\ rel_ops # <<>> => (~rel_repo.dirty \/ rel_pc = "commit")
    /\ rel_pc \in {"fetch", "git_cliff", "checkout", "compute_next_version", "notes",
                   "dry_run_return", "create_branch", "changelog", "prepend"} =>
        ~rel_repo.dirty

C26_Witness ==
    /\ rel_pc = "done"
    /\ rel_kwargs.dry_run
    /\ rel_repo.dirty
    /\ rel_result.status = "raised"
    /\ rel_result.error = "DirtyWorkingTreeError"
    /\ rel_ops = <<>>

\* C27: start_release calls create_pull_request only when create_pr is true
\* and github_token is a non-empty string, and only after commit_file and
\* push_set_upstream were executed and the release branch is on the remote;
\* with create_pr true and the token absent or empty it ends with
\* GitHubTokenRequiredError, after the push and without a GitHub call; with
\* create_pr false it makes no GitHub call and returns pr_url absent.
C27_PullRequestAfterPush ==
    /\ Executed("create_pull_request") =>
        /\ rel_kwargs.create_pr
        /\ rel_kwargs.github_token \notin {None, Some("")}
        /\ ~rel_kwargs.dry_run
        /\ 0 < OpIndex("commit_file")
        /\ OpIndex("commit_file") < OpIndex("push_set_upstream")
        /\ OpIndex("push_set_upstream") < OpIndex("create_pull_request")
        /\ ReleaseBranch(rel_version) \in rel_repo.pushed
        /\ rel_repo.commits = 1
    /\ rel_result.error = "GitHubTokenRequiredError" =>
        /\ rel_kwargs.create_pr
        /\ rel_kwargs.github_token \in {None, Some("")}
        /\ rel_ops[Len(rel_ops)] = "push_set_upstream"
        /\ ReleaseBranch(rel_version) \in rel_repo.pushed
        /\ rel_repo.pull_requests = 0
    /\ (rel_pc = "done" /\ rel_kwargs.create_pr /\ rel_kwargs.github_token \in {None, Some("")}
           /\ rel_repo.pushed # {}) =>
        rel_result.error = "GitHubTokenRequiredError"
    /\ (rel_pc # "idle" /\ ~rel_kwargs.create_pr) =>
        /\ ~Executed("create_pull_request")
        /\ rel_repo.pull_requests = 0
        /\ rel_result.pr_url = None
    /\ rel_result.pr_url # None =>
        /\ rel_result.status = "returned"
        /\ rel_ops[Len(rel_ops)] = "create_pull_request"
        /\ rel_repo.pull_requests = 1

C27_Witness ==
    /\ rel_pc = "done"
    /\ rel_kwargs.create_pr
    /\ rel_kwargs.github_token = Some("")
    /\ rel_result.error = "GitHubTokenRequiredError"
    /\ rel_repo.pushed = {ReleaseBranch(V_2_0_0)}
    /\ rel_repo.commits = 1
    /\ rel_repo.pull_requests = 0

\* a pull request is created after the push
C27_Created ==
    /\ rel_pc = "done"
    /\ rel_result.pr_url = Some("url")
    /\ rel_repo.pull_requests = 1

\* C28: a start_release that is not a dry run finds the changelog missing only
\* after create_and_checkout_branch: it ends with ChangelogNotFoundError when
\* the release branch exists and is checked out, and has executed no
\* changelog prepend, commit, push or pull-request creation.
C28_MissingChangelogAfterBranch ==
    /\ rel_result.error = "ChangelogNotFoundError" =>
        /\ rel_pc = "done"
        /\ ~rel_kwargs.dry_run
        /\ ~rel_repo.changelog_exists
        /\ rel_ops[Len(rel_ops)] = "create_and_checkout_branch"
        /\ rel_repo.head = ReleaseBranch(rel_version)
        /\ ReleaseBranch(rel_version) \in rel_repo.branches
        /\ \A op \in {"prepend_to_changelog", "commit_file", "push_set_upstream",
                       "create_pull_request"} : ~Executed(op)
        /\ rel_repo.changelog_sections = 0
        /\ rel_repo.commits = 0
        /\ rel_repo.pushed = {}
        /\ rel_repo.pull_requests = 0
    /\ (rel_pc # "idle" /\ ~rel_repo.changelog_exists) =>
        /\ ~Executed("prepend_to_changelog")
        /\ (rel_pc = "done" /\ Executed("create_and_checkout_branch")) =>
               rel_result.error = "ChangelogNotFoundError"
        /\ (rel_pc = "done" /\ rel_kwargs.dry_run) => rel_result.error # "ChangelogNotFoundError"

C28_Witness ==
    /\ rel_pc = "done"
    /\ rel_result.error = "ChangelogNotFoundError"
    /\ rel_repo.head = ReleaseBranch(V_2_0_0)
    /\ rel_repo.branches = {BaseBranch, ReleaseBranch(V_0_1_0), ReleaseBranch(V_2_0_0)}
    /\ rel_ops[Len(rel_ops)] = "create_and_checkout_branch"

----------------------------------------------------------------------------
(* cli.py: the release start command *)

\* the options of the command (cli.py 137-231) and the hooks.changelog_format
\* setting that line 46 makes the default of --changelog-format-cmd
ReleaseStartOptions ==
    [bump : {"auto"},
     version_override : {None, Some(<<>>), Some(V_1_2_3)},
     run_changelog_format : BOOLEAN,
     changelog_format_cmd : {None, Some(FormatCommand)},
     hooks_changelog_format : {None, Some(<<>>), Some(FormatCommand)},
     create_pr : BOOLEAN,
     github_token : {None, Some("token")},
     dry_run : BOOLEAN]

\* the value of the parameter changelog_format_cmd: the flag, else the default
\* taken from the settings (lines 46, 62-68)
changelog_format_cmd(args) ==
    IF args.changelog_format_cmd # None THEN args.changelog_format_cmd
    ELSE args.hooks_changelog_format

\* a slip of line 254: the check is left out
FormatCommandMissing_Unchecked(args) == FALSE

\* line 254: run_changelog_format and not changelog_format_cmd
FormatCommandMissing(args) ==
    args.run_changelog_format /\ changelog_format_cmd(args) \in {None, Some(<<>>)}

\* the exception class cli.py imports at line 18 and raises at line 133: a
\* ReleezError whose text says that no format command is configured
ChangelogFormatCommandRequiredError ==
    [name |-> "ChangelogFormatCommandRequiredError", releez |-> TRUE,
     message |-> "no format command is configured"]

\* lines 254-255 and 272-274: the error is printed and the command exits with 1
release_start_format_command_required ==
    /\ rs_pc = "start"
    /\ FormatCommandMissing(rs_args)
    /\ rs_outcome' = CmdExit(ChangelogFormatCommandRequiredError.name)
    /\ rs_stderr' = ChangelogFormatCommandRequiredError.message
    /\ rs_pc' = "done"
    /\ UNCHANGED <<rs_args, rs_calls>>
    /\ UNCHANGED <<avVars, tagVars, selVars, vaVars, rtVars, relVars, thVars, ghVars>>

\* lines 257-270: the keyword arguments StartReleaseInput is constructed with
release_start_kwargs(args) ==
    [bump |-> args.bump,
     version_override |-> args.version_override,
     base_branch |-> BaseBranch,
     remote_name |-> "origin",
     labels |-> <<>>,
     title_prefix |-> "chore(release): ",
     changelog_path |-> "CHANGELOG.md",
     run_changelog_format |-> args.run_changelog_format,
     changelog_format_cmd |-> changelog_format_cmd(args),
     create_pr |-> args.create_pr,
     github_token |-> args.github_token,
     dry_run |-> args.dry_run]

\* lines 257-277: StartReleaseInput(...) raises TypeError, which the clause at
\* 275 catches: "Unexpected error" is printed and the command exits with 1;
\* start_release (271) and the output lines 279-286 are never reached
release_start_build_input ==
    /\ rs_pc = "start"
    /\ ~FormatCommandMissing(rs_args)
    /\ DataclassInit(StartReleaseInputFields, release_start_kwargs(rs_args)).status = "error"
    /\ rs_outcome' =
           CmdExit(DataclassInit(StartReleaseInputFields, release_start_kwargs(rs_args)).error)
    /\ rs_stderr' = "Unexpected error: unexpected keyword argument"
    /\ rs_pc' = "done"
    /\ UNCHANGED <<rs_args, rs_calls>>
    /\ UNCHANGED <<avVars, tagVars, selVars, vaVars, rtVars, relVars, thVars, ghVars>>

InitReleaseStart ==
    /\ rs_args \in ReleaseStartOptions
    /\ rs_pc = "start"
    /\ rs_outcome = CmdRunning
    /\ rs_stderr = ""
    /\ rs_calls = <<>>
    /\ ArtifactIdle
    /\ TagsIdle
    /\ VersionArtifactIdle
    /\ ReleaseTagIdle
    /\ StartReleaseIdle
    /\ ThreadsIdle
    /\ GithubIdle

NextReleaseStart ==
    \/ release_start_format_command_required
    \/ release_start_build_input

SpecReleaseStart == InitReleaseStart /\ [][NextReleaseStart]_vars

\* C19: a release start invocation that passes the format-command check calls
\* start_release with a StartReleaseInput whose version_override is the value
\* of --version-override, none when the flag is not given.
C19_ForwardsVersionOverride ==
    (rs_pc = "done" /\ ~(rs_args.run_changelog_format
                          /\ rs_args.changelog_format_cmd = None
                          /\ rs_args.hooks_changelog_format \in {None, Some(<<>>)})) =>
        /\ Len(rs_calls) = 1
        /\ rs_calls[1].version_override = rs_args.version_override

\* C20: a release start invocation with --run-changelog-format and no format
\* command from the flag or the settings exits with code 1, reports that no
\* format command is configured, and does not call start_release.
C20_FormatCommandRequired ==
    (/\ rs_pc = "done"
     /\ rs_args.run_changelog_format
     /\ rs_args.changelog_format_cmd = None
     /\ rs_args.hooks_changelog_format \in {None, Some(<<>>)}) =>
        /\ rs_outcome.exit_code = 1
        /\ rs_outcome.error = "ChangelogFormatCommandRequiredError"
        /\ rs_stderr = "no format command is configured"
        /\ rs_calls = <<>>

C20_Witness ==
    /\ rs_pc = "done"
    /\ rs_args.run_changelog_format
    /\ rs_args.changelog_format_cmd = None
    /\ rs_args.hooks_changelog_format = None
    /\ rs_outcome = CmdExit("ChangelogFormatCommandRequiredError")
    /\ rs_calls = <<>>

----------------------------------------------------------------------------
(* github.py: _parse_github_full_name and create_pull_request *)

S_github_com == <<"g", "i", "t", "h", "u", "b", ".", "c", "o", "m">>
S_ghe_io == <<"g", "h", "e", ".", "i", "o">>
S_gitlab_com == <<"g", "i", "t", "l", "a", "b", ".", "c", "o", "m">>
S_git_at == <<"g", "i", "t", "@">>
S_ssh == <<"s", "s", "h", ":", "/", "/">>
S_http == <<"h", "t", "t", "p", ":", "/", "/">>
S_https == <<"h", "t", "t", "p", "s", ":", "/", "/">>
S_dot_git == <<".", "g", "i", "t">>
S_org_repo == <<"o", "r", "g", "/", "r", "e", "p", "o">>
S_api_v3 == <<"/", "a", "p", "i", "/", "v", "3">>

\* the environment variables read by lines 59-66 and 74-79
GitHubVars ==
    {"RELEEZ_GITHUB_SERVER_URL", "GITHUB_SERVER_URL", "RELEEZ_GITHUB_API_URL", "GITHUB_API_URL"}

\* os.getenv(var): None when unset; set to an empty value, to the URL of the
\* GitHub Enterprise server, with or without a trailing slash, or to its bare
\* host name
GitHubVarValues ==
    {None, Some(<<>>), Some(S_https \o S_ghe_io), Some(S_https \o S_ghe_io \o <<"/">>),
     Some(S_ghe_io \o <<"/">>)}

\* the environments: no variable or one variable is set, or the server and
\* the API URL of a GitHub Enterprise server are both set
GitHubEnvs ==
    {[v \in GitHubVars |-> IF v = w THEN x ELSE None] :
        w \in GitHubVars, x \in GitHubVarValues}
    \cup {[v \in GitHubVars |->
              CASE v = "GITHUB_SERVER_URL" -> Some(S_https \o S_ghe_io)
                [] v = "GITHUB_API_URL" -> Some(S_https \o S_ghe_io \o S_api_v3)
                [] OTHER -> None]}

RECURSIVE RStripChar(_, _)
\* str.rstrip(c)
RStripChar(s, c) ==
    IF s # <<>> /\ s[Len(s)] = c THEN RStripChar(SubSeq(s, 1, Len(s) - 1), c) ELSE s

\* x or y, for values of type str | None
OrElse(x, y) == IF OverrideIsTruthy(x) THEN x ELSE y

\* lines 58-68
_github_api_base_url_from_env(env) ==
    LET api_url == OrElse(env["RELEEZ_GITHUB_API_URL"], env["GITHUB_API_URL"])
        server_url == OrElse(env["RELEEZ_GITHUB_SERVER_URL"], env["GITHUB_SERVER_URL"])
    IN  IF OverrideIsTruthy(api_url) THEN Some(RStripChar(api_url[1], "/"))
        ELSE IF ~OverrideIsTruthy(server_url) THEN None
        ELSE Some(RStripChar(server_url[1], "/") \o S_api_v3)

\* urlparse(raw).hostname for a value without user, port or upper-case
\* letters: the text between "//" after a scheme and the next "/", "?" or "#";
\* None when there is no "//" after a scheme or nothing follows it
UrlHostname(raw) ==
    LET i == FirstIndex(raw, {":"})
        after == SubSeq(raw, i + 3, Len(raw))
        netloc == SubSeq(after, 1, FirstIndex(after, {"/", "?", "#"}) - 1)
    IN  IF i > 1 /\ i + 2 <= Len(raw) /\ SubSeq(raw, i + 1, i + 2) = <<"/", "/">>
           /\ netloc # <<>>
        THEN Some(netloc)
        ELSE None

\* lines 71-90
_allowed_github_hosts_from_env(env) ==
    {S_github_com}
    \cup {UrlHostname(env[v][1])[1] :
            v \in {w \in GitHubVars : OverrideIsTruthy(env[w])
                                      /\ UrlHostname(env[w][1]) # None}}
    \cup {RStripChar(Strip(env[v][1]), "/") :
            v \in {w \in GitHubVars : OverrideIsTruthy(env[w])
                                      /\ UrlHostname(env[w][1]) = None}}

\* a slip of line 99: every host is taken
HostAllowed_Any(host, env) == TRUE

\* line 99: host not in _allowed_github_hosts_from_env()
HostAllowed(host, env) == host \in _allowed_github_hosts_from_env(env)

\* [^/]+/[^/]+ : two non-empty parts without a slash, around one slash
IsOwnerRepo(s) ==
    LET j == FirstIndex(s, {"/"})
    IN  /\ j > 1
        /\ j < Len(s)
        /\ \A k \in (j + 1)..Len(s) : s[k] # "/"

\* the end (?:\\.git)?$ of the three patterns, as written in a raw string: a
\* backslash, any character but a newline, then git
HasGitTail(s) ==
    /\ Len(s) >= 5
    /\ s[Len(s) - 4] = "\\"
    /\ s[Len(s) - 3] # "\n"
    /\ SubSeq(s, Len(s) - 2, Len(s)) = <<"g", "i", "t">>

\* the group full of (?P<full>[^/]+/[^/]+?)(?:\\.git)?$ on the rest of the
\* URL: the lazy quantifier takes the shortest text the end can follow
FullGroup(rest) ==
    IF HasGitTail(rest) /\ IsOwnerRepo(SubSeq(rest, 1, Len(rest) - 5))
    THEN Some(SubSeq(rest, 1, Len(rest) - 5))
    ELSE IF IsOwnerRepo(rest) THEN Some(rest)
    ELSE None

\* regex.match(url) for ^prefix(?P<host>[^c]+)c(?P<full>...)...$ : None, or
\* the groups host and full
RemoteMatch(url, prefix, c) ==
    LET after == SubSeq(url, Len(prefix) + 1, Len(url))
        i == FirstIndex(after, {c})
        rest == SubSeq(after, i + 1, Len(after))
    IN  IF IsPrefix(prefix, url) /\ i > 1 /\ i <= Len(after) /\ FullGroup(rest) # None
        THEN Some([host |-> SubSeq(after, 1, i - 1), full |-> FullGroup(rest)[1]])
        ELSE None

\* lines 47-55 and 95-96: the first of _SCP_SSH_RE, _SSH_URL_RE, _HTTPS_RE to match
FirstMatch(url) ==
    IF RemoteMatch(url, S_git_at, ":") # None THEN RemoteMatch(url, S_git_at, ":")
    ELSE IF RemoteMatch(url, S_ssh \o S_git_at, "/") # None
    THEN RemoteMatch(url, S_ssh \o S_git_at, "/")
    ELSE IF RemoteMatch(url, S_https, "/") # None THEN RemoteMatch(url, S_https, "/")
    ELSE RemoteMatch(url, S_http, "/")

\* str.removesuffix('.git') after endswith('.git'), lines 102-103
RemoveSuffixGit(s) ==
    IF Len(s) >= 4 /\ SubSeq(s, Len(s) - 3, Len(s)) = S_dot_git
    THEN SubSeq(s, 1, Len(s) - 4)
    ELSE s

\* lines 93-105
_parse_github_full_name(remote_url, env) ==
    LET m == FirstMatch(Strip(remote_url))
    IN  IF m = None THEN Err("InvalidGitHubRemoteError")
        ELSE IF ~HostAllowed(m[1].host, env) THEN Err("InvalidGitHubRemoteError")
        ELSE Ok(RemoveSuffixGit(m[1].full))

\* what comes before the host and between host and path: the three shapes the
\* patterns take, and shapes close to them
UrlShapes ==
    {[name |-> "scp", prefix |-> S_git_at, sep |-> ":"],
     [name |-> "ssh", prefix |-> S_ssh \o S_git_at, sep |-> "/"],
     [name |-> "https", prefix |-> S_https, sep |-> "/"],
     [name |-> "http", prefix |-> S_http, sep |-> "/"],
     [name |-> "git", prefix |-> <<"g", "i", "t", ":", "/", "/">>, sep |-> "/"],
     [name |-> "ssh without user", prefix |-> S_ssh, sep |-> "/"],
     [name |-> "scp with slash", prefix |-> S_git_at, sep |-> "/"],
     [name |-> "bare", prefix |-> <<>>, sep |-> "/"]}

\* the shapes _SCP_SSH_RE, _SSH_URL_RE and _HTTPS_RE are written for
GitHubShapes == {"scp", "ssh", "https", "http"}

UrlHosts ==
    {S_github_com, S_ghe_io, S_gitlab_com,
     S_gitlab_com \o <<"/">> \o S_github_com,
     S_github_com \o <<"@">> \o S_gitlab_com}

UrlPaths == {S_org_repo, <<"o", "r", "g">>, S_org_repo \o <<"/", "x">>}

UrlSuffixes == {<<>>, S_dot_git, S_dot_git \o S_dot_git, <<"\\">> \o S_dot_git, <<"/">>}

UrlPadding == {<<>>, <<"\n">>}

UrlParts ==
    [shape : UrlShapes, host : UrlHosts, path : UrlPaths, suffix : UrlSuffixes,
     padding : UrlPadding]

\* the remote URL the parts spell
UrlOf(parts) ==
    parts.shape.prefix \o parts.host \o <<parts.shape.sep>> \o parts.path \o parts.suffix
        \o parts.padding

\* line 93 entered from a caller other than create_pull_request
parse_github_full_name_call ==
    /\ gh_pc = "start"
    /\ gh_call = "_parse_github_full_name"
    /\ gh_full_name' = _parse_github_full_name(gh_remote_url, gh_env)
    /\ gh_pc' = "done"
    /\ UNCHANGED <<gh_call, gh_parts, gh_remote_url, gh_env, gh_pull_request>>
    /\ UNCHANGED <<avVars, tagVars, selVars, cmdVars, thVars>>

\* lines 120-123: from github import Github
create_pull_request_import ==
    /\ gh_pc = "start"
    /\ gh_call = "create_pull_request"
    /\ \E installed \in BOOLEAN :
        IF installed
        THEN gh_pc' = "parse" /\ UNCHANGED gh_pull_request
        ELSE gh_pc' = "done" /\ gh_pull_request' = Err("MissingGitHubDependencyError")
    /\ UNCHANGED <<gh_call, gh_parts, gh_remote_url, gh_env, gh_full_name>>
    /\ UNCHANGED <<avVars, tagVars, selVars, cmdVars, thVars>>

\* line 125: full_name = _parse_github_full_name(request.remote_url)
create_pull_request_parse ==
    /\ gh_pc = "parse"
    /\ gh_full_name' = _parse_github_full_name(gh_remote_url, gh_env)
    /\ IF _parse_github_full_name(gh_remote_url, gh_env).status = "ok"
       THEN gh_pc' = "create" /\ UNCHANGED gh_pull_request
       ELSE /\ gh_pc' = "done"
            /\ gh_pull_request' = Err(_parse_github_full_name(gh_remote_url, gh_env).error)
    /\ UNCHANGED <<gh_call, gh_parts, gh_remote_url, gh_env>>
    /\ UNCHANGED <<avVars, tagVars, selVars, cmdVars, thVars>>

\* lines 126-144: the client is built for the API base URL of the
\* environment, the repository is looked up by full name and the pull request
\* is created; a call of the API may fail
create_pull_request_create ==
    /\ gh_pc = "create"
    /\ \E accepted \in BOOLEAN :
        gh_pull_request' =
            IF accepted
            THEN Ok([base_url |-> _github_api_base_url_from_env(gh_env),
                     full_name |-> gh_full_name.value])
            ELSE Err("GithubException")
    /\ gh_pc' = "done"
    /\ UNCHANGED <<gh_call, gh_parts, gh_remote_url, gh_env, gh_full_name>>
    /\ UNCHANGED <<avVars, tagVars, selVars, cmdVars, thVars>>

InitGithub ==
    /\ gh_call \in {"_parse_github_full_name", "create_pull_request"}
    /\ gh_parts \in UrlParts
    /\ gh_remote_url = UrlOf(gh_parts)
    /\ gh_env \in GitHubEnvs
    /\ gh_pc = "start"
    /\ gh_full_name = Pending
    /\ gh_pull_request = Pending
    /\ ArtifactIdle
    /\ TagsIdle
    /\ VersionArtifactIdle
    /\ ReleaseTagIdle
    /\ StartReleaseIdle
    /\ ReleaseStartIdle
    /\ ThreadsIdle

NextGithub ==
    \/ parse_github_full_name_call
    \/ create_pull_request_import
    \/ create_pull_request_parse
    \/ create_pull_request_create

SpecGithub == InitGithub /\ [][NextGithub]_vars

\* the hosts the environment names besides github.com: every non-empty value
\* of GitHubVarValues names ghe.io
NamedHosts ==
    {S_github_com}
    \cup (IF \E v \in GitHubVars : gh_env[v] \notin {None, Some(<<>>)} THEN {S_ghe_io} ELSE {})

\* the remote URL was put together in one of the three shapes with an allowed host
AllowedRemote == gh_parts.shape.name \in GitHubShapes /\ gh_parts.host \in NamedHosts

\* C22: _parse_github_full_name returns only for a remote URL in SCP, ssh://
\* or http(s):// shape whose host is github.com or a host named by one of the
\* four environment variables, and then returns the owner/repo path of the URL
\* with one trailing .git removed; for every other shape or host it raises
\* InvalidGitHubRemoteError, its only failure; create_pull_request reaches the
\* GitHub API only after it returned, so never for a remote outside the
\* allow-list.
C22_OnlyAllowedHosts ==
    /\ gh_full_name.status = "ok" =>
        /\ AllowedRemote
        /\ gh_parts.path = S_org_repo
        /\ gh_full_name.value =
               S_org_repo \o (IF gh_parts.suffix = S_dot_git \o S_dot_git THEN S_dot_git
                              ELSE <<>>)
    /\ gh_full_name.status = "error" => gh_full_name.error = "InvalidGitHubRemoteError"
    /\ (gh_pc = "done" /\ ~AllowedRemote) =>
        /\ gh_full_name.status # "ok"
        /\ gh_pull_request.status # "ok"
        /\ gh_pull_request.error # "GithubException"
    /\ gh_pc = "create" => gh_full_name.status = "ok"
    /\ gh_pull_request.status = "ok" =>
        /\ AllowedRemote
        /\ gh_pull_request.value.full_name = gh_full_name.value

C22_Witness ==
    /\ gh_call = "create_pull_request"
    /\ gh_parts.shape.name = "scp"
    /\ gh_parts.host = S_ghe_io
    /\ gh_parts.suffix = S_dot_git
    /\ gh_env["GITHUB_SERVER_URL"] = Some(S_https \o S_ghe_io)
    /\ gh_env["GITHUB_API_URL"] = None
    /\ gh_full_name = Ok(S_org_repo)
    /\ gh_pull_request =
           Ok([base_url |-> Some(S_https \o S_ghe_io \o S_api_v3), full_name |-> S_org_repo])

\* an unknown host is refused although the environment names another one
C22_Rejected ==
    /\ gh_parts.shape.name = "https"
    /\ gh_parts.host = S_gitlab_com
    /\ gh_parts.path = S_org_repo
    /\ gh_parts.suffix = S_dot_git
    /\ gh_env["GITHUB_SERVER_URL"] = Some(S_https \o S_ghe_io)
    /\ gh_pull_request = Err("InvalidGitHubRemoteError")

====
